---- MODULE Spec2Model ----
(***************************************************************************)
(* A model of korhah's reactive system (src/src/system.rs).                *)
(*                                                                         *)
(* The kernel state is the fields of SystemInner.  Every public operation  *)
(* (create, read, update, delete, listen, emit, silence) is an operator    *)
(* that takes the kernel state and returns the state it leaves together    *)
(* with the value it returns; user code (recipes, callbacks, handlers) is  *)
(* data that the operators interpret.  A panic (a failed unwrap / expect)  *)
(* ends the program: the state it leaves is kept and nothing runs after.   *)
(***************************************************************************)
EXTENDS Integers, Sequences, FiniteSets, TLC

\* ------------------------------------------------------------------ bounds
\* Id = u128 is never exhausted in practice; the programs modelled here stop
\* allocating at WideIds IDs (programs that register few kinds of listener)
\* or at NarrowIds IDs (programs that register many kinds).
WideIds == 4
NarrowIds == 3
\* the threads that share one System, and the calls each of them makes
Threads == 2
MaxOps == 2

\* Option<Id>::None (listener.rs: target: Option<Id>)
NoId == -1

IdSet == 0 .. (WideIds - 1)
TargetSet == {NoId} \cup IdSet

\* ------------------------------------------------------------------- types
\* the types T of Variable<T> that the host program uses
Types == {"i32", "bool"}

\* Event types are told apart by their TypeId; Creating<T>, Created<T> and
\* Deleted<T> are one type per T, the others are unit structs.
NoT == "-"
Creating(T) == <<"Creating", T>>
Created(T) == <<"Created", T>>
Reading == <<"Reading", NoT>>
ReadEv == <<"Read", NoT>>
Updating == <<"Updating", NoT>>
Updated == <<"Updated", NoT>>
Deleting == <<"Deleting", NoT>>
Deleted(T) == <<"Deleted", T>>
\* an event type defined by the host program
CustomEvent == <<"CustomEvent", NoT>>

EventTypes ==
    {Reading, ReadEv, Updating, Updated, Deleting, CustomEvent}
        \cup {Creating(T) : T \in Types}
        \cup {Created(T) : T \in Types}
        \cup {Deleted(T) : T \in Types}

\* ---------------------------------------------------------------- listener
\* enum Vote
Vote == {"Abstain", "Cancel", "Proceed"}

\* struct Votes, as Result<Votes, ()>: aborted stands for Err(())
VotesDefault == [aborted |-> FALSE, abstain |-> 0, cancel |-> 0, proceed |-> 0]
EmitErr == [aborted |-> TRUE, abstain |-> 0, cancel |-> 0, proceed |-> 0]

\* a variant in which a tie cancels
CancelledTie(r) == IF r.aborted THEN TRUE ELSE r.cancel >= r.proceed
\* .map(|votes| votes.cancel > votes.proceed).unwrap_or(true)
Cancelled(r) == IF r.aborted THEN TRUE ELSE r.cancel > r.proceed

\* A handler closure: the vote it casts and whether it sets the abort flag.
HandlerSet == [vote : Vote, abort : {FALSE}] \cup [vote : {"Abstain"}, abort : {TRUE}]
\* the handlers that cast a vote or abort
VotingHandlers == {h \in HandlerSet : h.vote # "Abstain" \/ h.abort}

\* ------------------------------------------------------------ return values
\* Result<Option<S>, ()> of read / update / delete, Result<Variable<T>, ()> of
\* create, Option<..> of listen / silence.  Panic: the call did not return.
RetErr == [k |-> "Err", v |-> 0]
RetNone == [k |-> "None", v |-> 0]
RetSome(x) == [k |-> "Some", v |-> x]
RetPanic == [k |-> "Panic", v |-> 0]

\* BTreeMap::new()
EmptyMap == [x \in {} |-> 0]
\* a map without one key (BTreeMap::remove)
MapRemove(m, key) == [x \in DOMAIN m \ {key} |-> m[x]]
\* BTreeMap::insert
MapInsert(m, key, val) == [x \in DOMAIN m \cup {key} |-> IF x = key THEN val ELSE m[x]]

\* ------------------------------------------------------------------- state
VARIABLES next_id, id_pool, tracking_id, dependencies, values, recipes,
          listeners, panicked, host, threads

vars == <<next_id, id_pool, tracking_id, dependencies, values, recipes,
          listeners, panicked, host, threads>>

\* struct SystemInner as a call finds it, with whether the program has
\* panicked, whether a guard of the cell is alive (guard: none between two
\* calls) and the trace of the call (log), empty when the call begins
Sys ==
    [next_id |-> next_id, id_pool |-> id_pool, tracking_id |-> tracking_id,
     dependencies |-> dependencies, values |-> values, recipes |-> recipes,
     listeners |-> listeners, panicked |-> panicked, guard |-> FALSE,
     log |-> <<>>]

\* SystemInner::default()
SysDefault ==
    [next_id |-> 0, id_pool |-> <<>>, tracking_id |-> NoId,
     dependencies |-> [i \in IdSet |-> {}],
     values |-> EmptyMap, recipes |-> EmptyMap,
     listeners |-> [b \in EventTypes \X TargetSet |-> <<>>],
     panicked |-> FALSE, guard |-> FALSE, log |-> <<>>]

Log(st, entry) == [st EXCEPT !.log = Append(@, entry)]

\* ---------------------------------------------------------- trace entries
\* One entry per dispatch, recipe run and callback run of the running call.
NoEv == <<"-", NoT>>
EmitEntry(ety, tgt, fired, res) ==
    [k |-> "emit", ety |-> ety, tgt |-> tgt, fired |-> fired, res |-> res, val |-> 0]
RecipeEntry(id, val) ==
    [k |-> "recipe", ety |-> NoEv, tgt |-> id, fired |-> <<>>, res |-> VotesDefault, val |-> val]
\* the callback of read (op = "read") or of update (op = "update") ran on
\* variable id; val is the value it saw (read) or left (update)
CallbackEntry(op, id, val) ==
    [k |-> op, ety |-> NoEv, tgt |-> id, fired |-> <<>>, res |-> VotesDefault, val |-> val]

\* a failed unwrap() / expect(): the program stops with the state as it is
Panic(st) == [st EXCEPT !.panicked = TRUE]

\* -------------------------------------------------------------------- emit
\* this.hold() made by a call that user code makes into the system: while a
\* guard is alive, lock() spins for ever (Mutex) and borrow_mut() panics
\* (RefCell); either way the call r is never made and the program stops
GuardEntry ==
    [k |-> "guard", ety |-> NoEv, tgt |-> NoId, fired |-> <<>>, res |-> VotesDefault, val |-> 0]
Hold(st, r) ==
    IF st.guard
    THEN [st |-> Panic(Log(st, GuardEntry)), res |-> RetPanic]
    ELSE r

\* user code (a handler, a recipe, a callback) is entered in the state st:
\* the trace records when it finds an ID in only one of the value store and
\* the recipe table
IncoherentEntry ==
    [k |-> "incoherent", ety |-> NoEv, tgt |-> NoId, fired |-> <<>>, res |-> VotesDefault,
     val |-> 0]
Observe(st) ==
    IF DOMAIN st.values = DOMAIN st.recipes THEN st ELSE Log(st, IncoherentEntry)

\* what a handler closure does with the system before it votes: nothing, or
\* one call on the variable var it captured
NoAct == [k |-> "none", var |-> [id |-> NoId, ty |-> NoT]]
ActOf(h) == IF "act" \in DOMAIN h THEN h.act ELSE NoAct

\* handler(&mut this, &event, &mut vote, &mut abort); defined with the
\* operations it calls
RECURSIVE RunHandler(_, _, _, _)

\* a variant in which a vote left untouched is not counted
TallyCast(votes, vote) ==
    CASE vote = "Abstain" -> votes
      [] vote = "Cancel" -> [votes EXCEPT !.cancel = @ + 1]
      [] vote = "Proceed" -> [votes EXCEPT !.proceed = @ + 1]

\* match vote { Abstain => votes.abstain += 1, ... }
Tally(votes, vote) ==
    CASE vote = "Abstain" -> [votes EXCEPT !.abstain = @ + 1]
      [] vote = "Cancel" -> [votes EXCEPT !.cancel = @ + 1]
      [] vote = "Proceed" -> [votes EXCEPT !.proceed = @ + 1]

\* for handler in handlers { ... }
RECURSIVE Dispatch(_, _, _, _, _, _)
\* a variant in which the loop goes on after an abort and fails at its end
HandledToTheEnd(hr, ety, tgt, handlers, votes, fired) ==
    IF hr.st.panicked
    THEN [st |-> hr.st, res |-> EmitErr]
    ELSE Dispatch(hr.st, ety, tgt, handlers,
                  IF hr.abort \/ votes.aborted THEN EmitErr ELSE Tally(votes, hr.vote),
                  fired)

\* a variant in which the loop skips the handlers whose listeners the
\* handlers before them removed
HandledLive(hr, ety, tgt, handlers, votes, fired) ==
    IF hr.st.panicked
    THEN [st |-> hr.st, res |-> EmitErr]
    ELSE IF hr.abort
         THEN [st |-> Log(hr.st, EmitEntry(ety, tgt, fired, EmitErr)), res |-> EmitErr]
         ELSE Dispatch(hr.st, ety, tgt,
                       SelectSeq(handlers,
                                 LAMBDA l : \E i \in DOMAIN hr.st.listeners[<<ety, tgt>>] :
                                                hr.st.listeners[<<ety, tgt>>][i].id = l.id),
                       Tally(votes, hr.vote), fired)

\* the loop after a handler returned hr: if abort { return Err(()) }, else
\* the vote is tallied and the loop goes on with the handlers left
Handled(hr, ety, tgt, handlers, votes, fired) ==
    IF hr.st.panicked
    THEN [st |-> hr.st, res |-> EmitErr]
    ELSE IF hr.abort
         THEN [st |-> Log(hr.st, EmitEntry(ety, tgt, fired, EmitErr)), res |-> EmitErr]
         ELSE Dispatch(hr.st, ety, tgt, handlers, Tally(votes, hr.vote), fired)

Dispatch(st, ety, tgt, handlers, votes, fired) ==
    IF handlers = <<>>
    THEN [st |-> Log(st, EmitEntry(ety, tgt, fired, votes)), res |-> votes]
    ELSE Handled(RunHandler(Observe(st), Head(handlers).h, ety, tgt), ety, tgt,
                 Tail(handlers), votes, Append(fired, Head(handlers).id))

\* a variant in which an event on a variable goes on to the global handlers
EmitBubbles(st, tgt, ety) ==
    Dispatch(st, ety, tgt,
             st.listeners[<<ety, tgt>>]
                 \o (IF tgt # NoId THEN st.listeners[<<ety, NoId>>] ELSE <<>>),
             VotesDefault, <<>>)

\* SystemInner::emit: the handlers of the (event type, target) bucket are
\* cloned, then run in order
Emit(st, tgt, ety) ==
    Dispatch(st, ety, tgt, st.listeners[<<ety, tgt>>], VotesDefault, <<>>)

\* -------------------------------------------------------------------- read
\* a variant without the soft-miss test
AbsentNever(st, id) == FALSE
\* !this.hold().values.contains_key(&variable.id): the soft-miss test that
\* read, update, delete and listen start with
Absent(st, id) == id \notin DOMAIN st.values

\* a variant that records the edge in both directions
TrackBoth(st, id) ==
    IF st.tracking_id # NoId
    THEN [st EXCEPT !.dependencies[id] = @ \cup {st.tracking_id},
                    !.dependencies[st.tracking_id] = @ \cup {id}]
    ELSE st

\* if let Some(dependent) = tracking_id { dependencies[id].insert(dependent) }
Track(st, id) ==
    IF st.tracking_id # NoId
    THEN [st EXCEPT !.dependencies[id] = @ \cup {st.tracking_id}]
    ELSE st

\* read from the callback on: the value is looked up and downcast (unwrap),
\* the callback |v| *v runs, Read is emitted
ReadValue(st, variable) ==
    IF variable.id \notin DOMAIN st.values \/ st.values[variable.id].ty # variable.ty
    THEN [st |-> Panic(st), res |-> RetPanic]
    ELSE [st |-> Emit(Log(st, CallbackEntry("read", variable.id, st.values[variable.id].v)),
                      variable.id, ReadEv).st,
          res |-> RetSome(st.values[variable.id].v)]

\* read after the dispatch e of Reading
ReadDispatched(e, variable) ==
    IF Cancelled(e.res)
    THEN [st |-> e.st, res |-> RetErr]
    ELSE ReadValue(Track(e.st, variable.id), variable)

\* SystemInner::read; variable is the handle [id, ty], the callback is |v| *v
Read(st, variable) ==
    IF Absent(st, variable.id)
    THEN [st |-> st, res |-> RetNone]
    ELSE ReadDispatched(Emit(st, variable.id, Reading), variable)

\* ------------------------------------------------------------------ recipes
\* A user recipe |s, _| base + (the sum of the variables it reads), each read
\* as s.read(x, |v| *v).ok().flatten().unwrap_or_default()
RECURSIVE RunReads(_, _, _)
\* the recipe goes on after the read that returned r
AfterRead(r, reads, acc) ==
    IF r.st.panicked
    THEN [st |-> r.st, val |-> acc]
    ELSE RunReads(r.st, reads, acc + (IF r.res.k = "Some" THEN r.res.v ELSE 0))

RunReads(st, reads, acc) ==
    IF reads = <<>>
    THEN [st |-> st, val |-> acc]
    ELSE AfterRead(Hold(st, Read(st, Head(reads))), Tail(reads), acc)

UserRecipe(st, recipe) == RunReads(st, recipe.reads, recipe.base)

\* Box::new(recipe(s, prev)): the result r of the user recipe, type-erased
Boxed(r, id, ty) ==
    [st |-> IF r.st.panicked THEN r.st ELSE Log(r.st, RecipeEntry(id, r.val)),
     val |-> [ty |-> ty, v |-> r.val]]

\* the wrapper create stores in the recipe table: it moves the previous value
\* out of the value store, then runs the user recipe
RecipeWrapper(st, id) ==
    Boxed(UserRecipe(Observe([st EXCEPT !.values = MapRemove(@, id)]), st.recipes[id]),
          id, st.recipes[id].ty)

\* ------------------------------------------------------------------ create
\* a variant that never reuses an ID of the pool
AllocFresh(st) == [st |-> [st EXCEPT !.next_id = @ + 1], id |-> st.next_id]
\* let id = id_pool.pop().unwrap_or_else(|| { next_id; next_id += 1 })
Alloc(st) ==
    IF st.id_pool # <<>>
    THEN [st |-> [st EXCEPT !.id_pool = SubSeq(@, 1, Len(@) - 1)],
          id |-> st.id_pool[Len(st.id_pool)]]
    ELSE [st |-> [st EXCEPT !.next_id = @ + 1], id |-> st.next_id]

\* a variant that does not free the ID
CreateCancelledKeepsId(st, id) == [st |-> st, res |-> RetErr]
\* the cancelled branch of create: this.hold().id_pool.push(id); return Err(())
CreateCancelled(st, id) ==
    [st |-> [st EXCEPT !.id_pool = Append(@, id)], res |-> RetErr]

\* a variant that stores T::default() instead of the recipe's value
CreateStoreDefault(st, id, ty, recipe, val) ==
    [st |-> Emit([st EXCEPT !.values = MapInsert(@, id, [ty |-> ty, v |-> 0]),
                            !.recipes = MapInsert(@, id,
                                [ty |-> ty, reads |-> recipe.reads, base |-> recipe.base])],
                 NoId, Created(ty)).st,
     res |-> RetSome(id)]
\* a variant that stores the value and no recipe
CreateStoreValueOnly(st, id, ty, recipe, val) ==
    [st |-> Emit([st EXCEPT !.values = MapInsert(@, id, [ty |-> ty, v |-> val])],
                 NoId, Created(ty)).st,
     res |-> RetSome(id)]
\* the rest of create: store the value and the wrapped recipe, emit Created
CreateStore(st, id, ty, recipe, val) ==
    [st |-> Emit([st EXCEPT !.values = MapInsert(@, id, [ty |-> ty, v |-> val]),
                            !.recipes = MapInsert(@, id,
                                [ty |-> ty, reads |-> recipe.reads, base |-> recipe.base])],
                 NoId, Created(ty)).st,
     res |-> RetSome(id)]

\* create after the dispatch e of Creating { value: val }
CreateDispatched(e, id, ty, recipe, val) ==
    IF Cancelled(e.res)
    THEN CreateCancelled(e.st, id)
    ELSE CreateStore(e.st, id, ty, recipe, val)

\* a variant that leaves tracking_id set after the recipe returned
CreateEvaluatedTracking(r, id, ty, recipe) ==
    IF r.st.panicked
    THEN [st |-> r.st, res |-> RetPanic]
    ELSE CreateDispatched(Emit(Log(r.st, RecipeEntry(id, r.val)), NoId, Creating(ty)),
                          id, ty, recipe, r.val)

\* create after recipe(&this, None) returned r: tracking_id = None, then the
\* Creating event is emitted in the global scope
CreateEvaluated(r, id, ty, recipe) ==
    IF r.st.panicked
    THEN [st |-> r.st, res |-> RetPanic]
    ELSE CreateDispatched(
             Emit(Log([r.st EXCEPT !.tracking_id = NoId], RecipeEntry(id, r.val)),
                  NoId, Creating(ty)),
             id, ty, recipe, r.val)

\* create after the allocation a: tracking_id = Some(id), then the recipe runs
CreateTracked(a, ty, recipe) ==
    CreateEvaluated(UserRecipe(Observe([a.st EXCEPT !.tracking_id = a.id]), recipe),
                    a.id, ty, recipe)

\* SystemInner::create, for a recipe [reads, base] returning a T = ty
Create(st, ty, recipe) == CreateTracked(Alloc(st), ty, recipe)

\* ------------------------------------------------------------------ update
\* the update callback of the host program sets the variable and returns what
\* it left, |v| { *v = 1; *v } (from 0 it does what the doc tests' |v| *v += 1
\* does; the doc test of emit has |v| *v = true)
Callbacks == {"set"}
\* a callback that first reads the variable it updates,
\* |v| { _ = s.read(variable, |x| *x); *v = 1; *v }
Reentrant == {"reread"}
ApplyCallback(cb, v) == 1

\* the members of a BTreeSet in iteration (ascending) order
RECURSIVE InOrder(_)
InOrder(S) ==
    IF S = {}
    THEN <<>>
    ELSE LET m == CHOOSE x \in S : \A y \in S : x <= y
         IN  <<m>> \o InOrder(S \ {m})

\* the dependent after its recipe returned r: the value is inserted and
\* Updated is emitted on it
Recomputed(r, dependent) ==
    IF r.st.panicked
    THEN r.st
    ELSE Emit([r.st EXCEPT !.values = MapInsert(@, dependent, r.val)],
              dependent, Updated).st

\* the dependent after the dispatch e of its Updating event
RecomputeDispatched(e, dependent) ==
    IF Cancelled(e.res)
    THEN e.st
    ELSE IF dependent \notin DOMAIN e.st.recipes
         THEN Panic(e.st)
         ELSE Recomputed(RecipeWrapper(e.st, dependent), dependent)

\* the body of `for dependent in dependents` for one dependent
Recompute(st, dependent) ==
    RecomputeDispatched(Emit(st, dependent, Updating), dependent)

\* a variant in which a dependent whose Updating is cancelled ends the loop
RECURSIVE CascadeStops(_, _)
CascadeStops(st, dependents) ==
    IF dependents = <<>> \/ st.panicked
    THEN st
    ELSE IF Cancelled(Emit(st, Head(dependents), Updating).res)
         THEN Emit(st, Head(dependents), Updating).st
         ELSE CascadeStops(Recompute(st, Head(dependents)), Tail(dependents))

RECURSIVE Cascade(_, _)
Cascade(st, dependents) ==
    IF dependents = <<>> \/ st.panicked
    THEN st
    ELSE Cascade(Recompute(st, Head(dependents)), Tail(dependents))

\* the snapshot of the dependents: dependencies.get(&id).cloned().unwrap_or_default()
Dependents(st, id) == InOrder(st.dependencies[id])

\* update after the loop over the dependents: Updated is emitted on the target
UpdateCascaded(st, id, ret) ==
    IF st.panicked
    THEN [st |-> st, res |-> RetPanic]
    ELSE [st |-> Emit(st, id, Updated).st, res |-> RetSome(ret)]

\* update after the callback left the state st and returned ret
UpdateCalled(st, id, ret) == UpdateCascaded(Cascade(st, Dependents(st, id)), id, ret)

\* a variant in which the callback works on a copy of the value
MutateCopy(st, variable, cb) ==
    Log([st EXCEPT !.guard = FALSE],
        CallbackEntry("update", variable.id, ApplyCallback(cb, st.values[variable.id].v)))

\* the callback stores its value, returns, and the guard is dropped
Mutate(st, variable, cb) ==
    Log([st EXCEPT !.values[variable.id].v = ApplyCallback(cb, @), !.guard = FALSE],
        CallbackEntry("update", variable.id, ApplyCallback(cb, st.values[variable.id].v)))

\* the callback after the call r it made into the system
CallbackCalled(r, variable, cb) ==
    IF r.st.panicked THEN r.st ELSE Mutate(r.st, variable, cb)

\* callback(...): a callback of Reentrant first reads the variable it updates
RunCallback(st, variable, cb) ==
    IF cb \in Reentrant
    THEN CallbackCalled(Hold(st, Read(st, variable)), variable, cb)
    ELSE Mutate(st, variable, cb)

\* update from the callback on: the value is looked up and downcast (unwrap);
\* callback(this.hold().values.get_mut(..)..) keeps the guard of hold() alive
\* until the callback has returned
UpdateValue(st, variable, cb) ==
    IF variable.id \notin DOMAIN st.values \/ st.values[variable.id].ty # variable.ty
    THEN [st |-> Panic(st), res |-> RetPanic]
    ELSE UpdateCalled(RunCallback(Observe([st EXCEPT !.guard = TRUE]), variable, cb),
                      variable.id, ApplyCallback(cb, st.values[variable.id].v))

\* a variant that goes on whatever the handlers of Updating decided
UpdateUnheeded(e, variable, cb) == UpdateValue(e.st, variable, cb)

\* update after the dispatch e of Updating on the target
UpdateDispatched(e, variable, cb) ==
    IF Cancelled(e.res)
    THEN [st |-> e.st, res |-> RetErr]
    ELSE UpdateValue(e.st, variable, cb)

\* SystemInner::update
Update(st, variable, cb) ==
    IF Absent(st, variable.id)
    THEN [st |-> st, res |-> RetNone]
    ELSE UpdateDispatched(Emit(st, variable.id, Updating), variable, cb)

\* ------------------------------------------------------------------ delete
\* the dangling-reference guard of delete
HasDependents(st, id) == st.dependencies[id] # {}

\* a variant that leaves the deleted variable in the dependent sets of the
\* variables it read
WipeKeepsEdges(st, id) ==
    [st EXCEPT !.dependencies[id] = {},
               !.recipes = MapRemove(@, id),
               !.listeners = [b \in DOMAIN @ |-> IF b[2] = id THEN <<>> ELSE @[b]],
               !.id_pool = Append(@, id)]
\* a variant that leaves the listeners of the deleted variable registered
WipeKeepsListeners(st, id) ==
    [st EXCEPT !.dependencies = [x \in IdSet |-> IF x = id THEN {} ELSE @[x] \ {id}],
               !.recipes = MapRemove(@, id),
               !.id_pool = Append(@, id)]
\* wipe the resources associated with the deleted variable
Wipe(st, id) ==
    [st EXCEPT !.dependencies = [x \in IdSet |-> IF x = id THEN {} ELSE @[x] \ {id}],
               !.recipes = MapRemove(@, id),
               !.listeners = [b \in DOMAIN @ |-> IF b[2] = id THEN <<>> ELSE @[b]],
               !.id_pool = Append(@, id)]

\* a variant that emits Deleted before the value is removed
DeleteValueAnnounced(st, variable) ==
    IF variable.id \notin DOMAIN st.values
    THEN [st |-> Panic(st), res |-> RetPanic]
    ELSE [st |-> [Emit(st, NoId, Deleted(variable.ty)).st EXCEPT
                      !.values = MapRemove(@, variable.id)],
          res |-> RetSome(st.values[variable.id].v)]

\* delete after the wipe: the value is removed and downcast (unwrap), Deleted
\* is emitted in the global scope
DeleteValue(st, variable) ==
    IF variable.id \notin DOMAIN st.values
    THEN [st |-> Panic(st), res |-> RetPanic]
    ELSE IF st.values[variable.id].ty # variable.ty
         THEN [st |-> Panic([st EXCEPT !.values = MapRemove(@, variable.id)]),
               res |-> RetPanic]
         ELSE [st |-> Emit([st EXCEPT !.values = MapRemove(@, variable.id)],
                           NoId, Deleted(variable.ty)).st,
               res |-> RetSome(st.values[variable.id].v)]

\* delete after the dispatch e of Deleting
DeleteDispatched(e, variable) ==
    IF Cancelled(e.res)
    THEN [st |-> e.st, res |-> RetErr]
    ELSE DeleteValue(Wipe(e.st, variable.id), variable)

\* SystemInner::delete
Delete(st, variable) ==
    IF Absent(st, variable.id)
    THEN [st |-> st, res |-> RetNone]
    ELSE IF HasDependents(st, variable.id)
         THEN [st |-> st, res |-> RetErr]
         ELSE DeleteDispatched(Emit(st, variable.id, Deleting), variable)

\* ------------------------------------------------------- listen and silence
\* IndexMap::insert: a new key goes last, an existing key keeps its place
BucketInsert(bucket, id, h) ==
    IF \E i \in 1 .. Len(bucket) : bucket[i].id = id
    THEN [i \in 1 .. Len(bucket) |->
              IF bucket[i].id = id THEN [id |-> id, h |-> h] ELSE bucket[i]]
    ELSE Append(bucket, [id |-> id, h |-> h])

\* listen after the allocation a: the handler is stored in its bucket
ListenStore(a, tgt, ety, h) ==
    [st |-> [a.st EXCEPT !.listeners[<<ety, tgt>>] = BucketInsert(@, a.id, h)],
     res |-> RetSome(a.id)]

\* SystemInner::listen
Listen(st, tgt, ety, h) ==
    IF tgt # NoId /\ Absent(st, tgt)
    THEN [st |-> st, res |-> RetNone]
    ELSE ListenStore(Alloc(st), tgt, ety, h)

\* a variant that fills the hole with the last entry (IndexMap::swap_remove)
SwapRemove(bucket, id) ==
    IF \E i \in 1 .. Len(bucket) - 1 : bucket[i].id = id
    THEN [i \in 1 .. Len(bucket) - 1 |->
              IF bucket[i].id = id THEN bucket[Len(bucket)] ELSE bucket[i]]
    ELSE SelectSeq(bucket, LAMBDA l : l.id # id)

\* IndexMap::shift_remove
ShiftRemove(bucket, id) == SelectSeq(bucket, LAMBDA l : l.id # id)

\* a variant that reports the removal without making it
SilenceDeaf(st, listener) ==
    IF \E i \in 1 .. Len(st.listeners[<<listener.ety, listener.target>>]) :
           st.listeners[<<listener.ety, listener.target>>][i].id = listener.id
    THEN [st |-> st, res |-> RetSome(0)]
    ELSE [st |-> st, res |-> RetNone]

\* a variant that returns the ID of the removed listener to the pool
SilenceFrees(st, listener) ==
    IF \E i \in 1 .. Len(st.listeners[<<listener.ety, listener.target>>]) :
           st.listeners[<<listener.ety, listener.target>>][i].id = listener.id
    THEN [st |-> [st EXCEPT !.listeners[<<listener.ety, listener.target>>] =
                                ShiftRemove(@, listener.id),
                            !.id_pool = Append(@, listener.id)],
          res |-> RetSome(0)]
    ELSE [st |-> st, res |-> RetNone]

\* SystemInner::silence; listener is the handle [id, target, ety]
Silence(st, listener) ==
    IF \E i \in 1 .. Len(st.listeners[<<listener.ety, listener.target>>]) :
           st.listeners[<<listener.ety, listener.target>>][i].id = listener.id
    THEN [st |-> [st EXCEPT !.listeners[<<listener.ety, listener.target>>] =
                                ShiftRemove(@, listener.id)],
          res |-> RetSome(0)]
    ELSE [st |-> st, res |-> RetNone]

\* Result<Votes, ()> of the dispatch e
Tallied(e) == [st |-> e.st, res |-> IF e.res.aborted THEN RetErr ELSE RetSome(e.res)]

\* System::emit called by the host program
EmitOp(st, tgt, ety) == Tallied(Emit(st, tgt, ety))

\* ---------------------------------------------------------------- handlers
\* the handler returns with its vote and abort flag as the closure set them
Voted(st, h) == [st |-> st, vote |-> h.vote, abort |-> h.abort]

\* the handler of the doc test of emit after its update u: _ = s.update(..)
TriggerUpdated(u, h) == Voted(u.st, h)

\* the handler of the doc test of emit after its read r: the two expect()s,
\* then *abort = true if the variable is set, else the variable is set
Triggered(r, h) ==
    IF r.st.panicked
    THEN Voted(r.st, h)
    ELSE IF r.res.k # "Some"
         THEN Voted(Panic(r.st), h)
         ELSE IF r.res.v = 1
              THEN [st |-> r.st, vote |-> h.vote, abort |-> TRUE]
              ELSE TriggerUpdated(Hold(r.st, Update(r.st, ActOf(h).var, "set")), h)

\* the listener that is last in the bucket of (ety, tgt)
LastOf(st, tgt, ety) ==
    [id |-> st.listeners[<<ety, tgt>>][Len(st.listeners[<<ety, tgt>>])].id,
     target |-> tgt, ety |-> ety]

\* the handler a handler registers: |_, _, vote, _| *vote = Vote::Proceed
Late == [vote |-> "Proceed", abort |-> FALSE]

\* handler(&mut this, &event, &mut vote, &mut abort): the closure h makes
\* the call of its act, ignores what it returns except in "trigger", and
\* votes.  The calls are those of the doc tests and examples:
\*   "read"     _ = s.read(var, |v| *v)
\*   "trigger"  the handler of the doc test of emit
\*   "delete"   _ = s.delete(var)
\*   "listen"   s.listen(target, Late) for its own event type and target
\*   "silence"  s.silence(l) for the listener l last in its own bucket, if
\*              the bucket has one
\*   "update"   _ = s.update(var, |v| *v = 1)
\*   "watch"    s.listen(var, Late) for Updated
\*   "create"   _ = s.create(move |s, _| s.read(var, |v| *v)...unwrap_or_default() + 1)
\* In a handler of Created or Deleted, var stands for e.source when the event
\* is that of var.
RunHandler(st, h, ety, tgt) ==
    CASE ActOf(h).k = "none" -> Voted(st, h)
      [] ActOf(h).k = "read" -> Voted(Hold(st, Read(st, ActOf(h).var)).st, h)
      [] ActOf(h).k = "trigger" -> Triggered(Hold(st, Read(st, ActOf(h).var)), h)
      [] ActOf(h).k = "delete" -> Voted(Hold(st, Delete(st, ActOf(h).var)).st, h)
      [] ActOf(h).k = "listen" -> Voted(Hold(st, Listen(st, tgt, ety, Late)).st, h)
      [] ActOf(h).k = "silence" ->
             IF st.listeners[<<ety, tgt>>] = <<>>
             THEN Voted(st, h)
             ELSE Voted(Hold(st, Silence(st, LastOf(st, tgt, ety))).st, h)
      [] ActOf(h).k = "update" -> Voted(Hold(st, Update(st, ActOf(h).var, "set")).st, h)
      [] ActOf(h).k = "watch" ->
             Voted(Hold(st, Listen(st, ActOf(h).var.id, Updated, Late)).st, h)
      [] ActOf(h).k = "create" ->
             Voted(Hold(st, Create(st, ActOf(h).var.ty,
                                   [reads |-> <<ActOf(h).var>>, base |-> 1])).st, h)

\* ----------------------------------------------------------- the program
\* The host program calls the operations one after another.  host is what
\* the host program is written to do: the variable types it uses, the event
\* types it listens for, the handlers it registers and how many IDs it uses.

\* a thread between two calls, with the number of calls it has left
Idle(left) == [pc |-> "idle", op |-> "-", tgt |-> NoId, id |-> NoId, left |-> left]

InitKernel(hosts) ==
    /\ next_id = SysDefault.next_id
    /\ id_pool = SysDefault.id_pool
    /\ tracking_id = SysDefault.tracking_id
    /\ dependencies = SysDefault.dependencies
    /\ values = SysDefault.values
    /\ recipes = SysDefault.recipes
    /\ listeners = SysDefault.listeners
    /\ panicked = FALSE
    /\ host \in hosts

\* a host program that makes all its calls from one thread, one after another
InitHost(hosts) ==
    /\ InitKernel(hosts)
    /\ threads = [t \in 1 .. Threads |-> Idle(0)]

\* the state a call leaves; the calls the handlers make allocate IDs within
\* the bound
Leaves(r) ==
    /\ r.st.next_id <= host.ids
    /\ next_id' = r.st.next_id
    /\ id_pool' = r.st.id_pool
    /\ tracking_id' = r.st.tracking_id
    /\ dependencies' = r.st.dependencies
    /\ values' = r.st.values
    /\ recipes' = r.st.recipes
    /\ listeners' = r.st.listeners
    /\ panicked' = r.st.panicked
    /\ UNCHANGED host

\* a whole call made by the one thread of the host program
Returns(r) == Leaves(r) /\ UNCHANGED threads

\* an ID can be allocated within the bound
CanAlloc == id_pool # <<>> \/ next_id < host.ids

\* the handles of the live variables
LiveHandles == {[id |-> i, ty |-> values[i].ty] : i \in DOMAIN values}
\* the handles the running program can call an operation with (none once it
\* has panicked)
Callable == {h \in LiveHandles : ~panicked}
\* any handle the program may hold, stale ones included
Handles == [id : IdSet, ty : host.types]

\* the recipes of the host program: |_, _| 0, |s, _| x + 1 and
\* |s, _| x + x + 1 for a live variable x
RecipeSet ==
    {[reads |-> <<>>, base |-> 0]}
        \cup {[reads |-> <<h>>, base |-> 1] : h \in LiveHandles}
        \cup {[reads |-> <<h, h>>, base |-> 1] : h \in {x \in LiveHandles : host.twice}}

DoCreate(ty, recipe) ==
    /\ ~panicked /\ CanAlloc
    /\ Returns(Create(Sys, ty, recipe))

DoRead(variable) ==
    /\ ~panicked
    /\ Returns(Read(Sys, variable))

DoUpdate(variable, cb) ==
    /\ ~panicked
    /\ Returns(Update(Sys, variable, cb))

DoDelete(variable) ==
    /\ ~panicked
    /\ Returns(Delete(Sys, variable))

\* Creating, Created and Deleted are emitted in the global scope, the other
\* built-in events on a variable: the host program listens where they are
\* emitted;
\* host-defined events are emitted in either scope
Scoped(tgt, ety) ==
    \/ ety = CustomEvent
    \/ (ety[1] \in {"Creating", "Created", "Deleted"}) <=> (tgt = NoId)

\* the handlers the host program registers: those of host.handlers, and one
\* for each act of host.acts, on a live variable where the act has one (on
\* any handle if host.stale: the handle of a variable to come or gone)
ActsOnVar == {"read", "trigger", "delete", "update", "watch", "create"}
Acting(k, var) == [vote |-> "Abstain", abort |-> FALSE, act |-> [k |-> k, var |-> var]]
Menu ==
    host.handlers
        \cup {Acting(k, x) : k \in host.acts \cap ActsOnVar,
                             x \in IF host.stale THEN Handles ELSE LiveHandles}
        \cup {Acting(k, NoAct.var) : k \in host.acts \ ActsOnVar}

\* the host program's handlers do not set themselves off again: a handler of
\* a host-defined event makes any call, a handler of a built-in event other
\* than Reading and Read only reads, the others make no call but those of
\* host.nests, which set off no event the host program listens for
Nests(ety, h) ==
    \/ ActOf(h).k = "none"
    \/ ety = CustomEvent
    \/ ActOf(h).k = "read" /\ ety \notin {Reading, ReadEv}
    \/ <<ety[1], ActOf(h).k>> \in host.nests

DoListen(tgt, ety, h) ==
    /\ ~panicked /\ CanAlloc
    /\ Scoped(tgt, ety)
    /\ Nests(ety, h)
    /\ Returns(Listen(Sys, tgt, ety, h))

\* the handlers of the emit register listeners within the bound on IDs
DoEmit(tgt, ety) ==
    /\ ~panicked
    /\ EmitOp(Sys, tgt, ety).st.next_id <= host.ids
    /\ Returns(EmitOp(Sys, tgt, ety))

DoSilence(listener) ==
    /\ ~panicked
    /\ Returns(Silence(Sys, listener))

\* the handles of the registered listeners
Registered ==
    {l \in [id : IdSet, target : TargetSet, ety : host.events] :
        \E i \in 1 .. Len(listeners[<<l.ety, l.target>>]) :
            listeners[<<l.ety, l.target>>][i].id = l.id}

Next ==
    \/ \E ty \in host.types, recipe \in RecipeSet : DoCreate(ty, recipe)
    \/ \E variable \in Handles : DoRead(variable)
    \/ \E variable \in Handles, cb \in host.callbacks : DoUpdate(variable, cb)
    \/ \E variable \in Handles : DoDelete(variable)
    \/ \E tgt \in TargetSet, ety \in host.events, h \in Menu : DoListen(tgt, ety, h)
    \/ \E tgt \in TargetSet, ety \in host.events : DoEmit(tgt, ety)
    \/ \E listener \in Registered : DoSilence(listener)

\* Host programs with one variable type that listen for the two events of
\* one operation and register handlers of every kind.
Hosts ==
    {[types |-> {"i32"}, events |-> evs, handlers |-> VotingHandlers, acts |-> {},
      nests |-> {}, stale |-> FALSE,
      callbacks |-> Callbacks, twice |-> FALSE, ids |-> NarrowIds] :
        evs \in {{Creating("i32"), Created("i32")}, {Reading, ReadEv},
                 {Updating, Updated}, {Deleting, Deleted("i32")}}}

Init == InitHost(Hosts)
Spec == Init /\ [][Next]_vars

\* A host program that only ever cancels creations, and uses more IDs.
GraphHosts ==
    {[types |-> {"i32"}, events |-> {Creating("i32")},
      handlers |-> {[vote |-> "Cancel", abort |-> FALSE]}, acts |-> {},
      nests |-> {}, stale |-> FALSE,
      callbacks |-> Callbacks, twice |-> TRUE, ids |-> WideIds]}

InitGraph == InitHost(GraphHosts)
SpecGraph == InitGraph /\ [][Next]_vars

\* A host program that defines an event of its own and registers handlers of
\* every kind for it, on variables and in the global scope, and for Updating.
EmitHosts ==
    {[types |-> {"i32"}, events |-> {CustomEvent, Updating}, handlers |-> HandlerSet,
      acts |-> {},
      nests |-> {}, stale |-> FALSE,
      callbacks |-> Callbacks, twice |-> FALSE, ids |-> NarrowIds]}

InitEmit == InitHost(EmitHosts)
SpecEmit == InitEmit /\ [][Next]_vars

\* A host program whose handlers and callbacks call back into the system.
NestedHosts ==
    {[types |-> {"i32"}, events |-> {CustomEvent, Updating, Updated},
      handlers |-> HandlerSet,
      acts |-> {"read", "trigger", "delete", "listen", "silence"},
      nests |-> {}, stale |-> FALSE,
      callbacks |-> Callbacks \cup Reentrant, twice |-> FALSE, ids |-> NarrowIds]}

InitNested == InitHost(NestedHosts)
SpecNested == InitNested /\ [][Next]_vars

\* A host program with variables of two types.
TypeHosts ==
    {[types |-> Types, events |-> {CustomEvent}, handlers |-> {Late}, acts |-> {},
      nests |-> {}, stale |-> FALSE,
      callbacks |-> Callbacks, twice |-> FALSE, ids |-> NarrowIds]}

InitTypes == InitHost(TypeHosts)
SpecTypes == InitTypes /\ [][Next]_vars

\* ------------------------------------------------- threads (shareable mode)
\* Clones of one System (Arc<spin::Mutex<SystemInner>>) are used by Threads
\* threads.  Each hold() locks the mutex for one statement, so a call is a
\* sequence of steps, one per statement (or run of statements) that holds
\* the guard, and the steps of the threads interleave.  The host program
\* registers no handler before it starts its threads; its recipes read
\* nothing.

\* the thread t goes on to the step pc
Goes(t, pc) == threads' = [threads EXCEPT ![t].pc = pc]
\* the thread t returns from its call
Done(t) == threads' = [threads EXCEPT ![t] = Idle(@.left)]
\* the kernel state is left as it is
Kept == Leaves([st |-> Sys])

\* the thread calls create(|_, _| 0), listen(v, Late) or delete(v)
Begin(t, op, v) ==
    /\ ~panicked
    /\ threads[t].pc = "idle" /\ threads[t].left > 0
    /\ op = "create" => v = NoId
    /\ op # "create" => v # NoId
    /\ threads' = [threads EXCEPT ![t] =
                       [pc |-> IF op = "create" THEN "pop" ELSE "check", op |-> op,
                        tgt |-> v, id |-> NoId, left |-> @.left - 1]]
    /\ Kept

\* listen, delete: if !this.hold().values.contains_key(..) { return None }; in
\* delete the test of the dependents and the dispatch of Deleting follow,
\* which find no dependent and no handler
Check(t) ==
    /\ ~panicked
    /\ threads[t].pc = "check"
    /\ IF Absent(Sys, threads[t].tgt)
       THEN Done(t)
       ELSE Goes(t, IF threads[t].op = "listen" THEN "pop" ELSE "wipe")
    /\ Kept

\* create, listen: let reusable_id = this.hold().id_pool.pop()
Pop(t) ==
    /\ ~panicked
    /\ threads[t].pc = "pop"
    /\ IF id_pool # <<>>
       THEN /\ threads' = [threads EXCEPT ![t].pc = "store",
                                          ![t].id = id_pool[Len(id_pool)]]
            /\ Leaves([st |-> [Sys EXCEPT !.id_pool = SubSeq(@, 1, Len(@) - 1)]])
       ELSE Goes(t, "next") /\ Kept

\* let id = this.hold().next_id
ReadNextId(t) ==
    /\ ~panicked
    /\ threads[t].pc = "next"
    /\ threads' = [threads EXCEPT ![t].pc = "incr", ![t].id = next_id]
    /\ Kept

\* this.hold().next_id += 1
Incr(t) ==
    /\ ~panicked
    /\ threads[t].pc = "incr"
    /\ Goes(t, "store")
    /\ Leaves([st |-> [Sys EXCEPT !.next_id = @ + 1]])

\* create: the recipe runs, Creating finds no handler, the value and the
\* recipe are stored, Created finds no handler; listen: the handler is stored
Store(t) ==
    /\ ~panicked
    /\ threads[t].pc = "store"
    /\ Done(t)
    /\ IF threads[t].op = "create"
       THEN Leaves([st |-> [Sys EXCEPT
                !.values = MapInsert(@, threads[t].id, [ty |-> "i32", v |-> 0]),
                !.recipes = MapInsert(@, threads[t].id,
                                      [ty |-> "i32", reads |-> <<>>, base |-> 0])]])
       ELSE Leaves(ListenStore([st |-> Sys, id |-> threads[t].id], threads[t].tgt,
                               CustomEvent, Late))

\* delete: wipe the resources associated with the deleted variable
WipeStep(t) ==
    /\ ~panicked
    /\ threads[t].pc = "wipe"
    /\ Goes(t, "remove")
    /\ Leaves([st |-> Wipe(Sys, threads[t].tgt)])

\* delete: this.hold().values.remove(&variable.id).unwrap(); Deleted finds
\* no handler
Remove(t) ==
    /\ ~panicked
    /\ threads[t].pc = "remove"
    /\ Done(t)
    /\ IF Absent(Sys, threads[t].tgt)
       THEN Leaves([st |-> Panic(Sys)])
       ELSE Leaves([st |-> [Sys EXCEPT !.values = MapRemove(@, threads[t].tgt)]])

NextThreads ==
    \/ \E t \in 1 .. Threads, op \in {"create", "listen", "delete"}, v \in TargetSet :
           Begin(t, op, v)
    \/ \E t \in 1 .. Threads : Check(t)
    \/ \E t \in 1 .. Threads : Pop(t)
    \/ \E t \in 1 .. Threads : ReadNextId(t)
    \/ \E t \in 1 .. Threads : Incr(t)
    \/ \E t \in 1 .. Threads : Store(t)
    \/ \E t \in 1 .. Threads : WipeStep(t)
    \/ \E t \in 1 .. Threads : Remove(t)

\* A host program that hands clones of its System to its threads.
ThreadHosts ==
    {[types |-> {"i32"}, events |-> {CustomEvent}, handlers |-> {Late}, acts |-> {},
      nests |-> {}, stale |-> FALSE,
      callbacks |-> Callbacks, twice |-> FALSE, ids |-> WideIds]}

InitThreads ==
    /\ InitKernel(ThreadHosts)
    /\ threads = [t \in 1 .. Threads |-> Idle(MaxOps)]
SpecThreads == InitThreads /\ [][NextThreads]_vars

\* ------------------------------------------------------ calls, step by step
\* One thread makes the calls; a call with a dispatch in it is a sequence of
\* steps.  The call in progress keeps what it has left to do as a list of
\* items: a dispatch (the loop of emit over the handlers it cloned, one step
\* per handler) or a stretch of code between two dispatches.  Handlers,
\* recipes and callbacks return and the handlers do not call into the system;
\* a recipe reads the variables of its reads.
Item(k, tgt) == [k |-> k, ety |-> NoEv, tgt |-> tgt, skip |-> 0]
\* this.emit(tgt, &ety): if the dispatch is cancelled, the skip items after
\* it are not run (WholeCall: the call returns Err(()))
WholeCall == -1
EmitItem(ety, tgt, skip) == [k |-> "emit", ety |-> ety, tgt |-> tgt, skip |-> skip]

\* no call in progress
Resting ==
    [pc |-> "idle", op |-> "-", var |-> NoAct.var, id |-> NoId, val |-> 0,
     recipe |-> [reads |-> <<>>, base |-> 0], todo |-> <<>>, hs |-> <<>>,
     votes |-> VotesDefault, snap |-> {}, ran |-> <<>>]
\* the call in progress
Call == threads[1]
\* the call goes on with the frame f
Runs(f) == threads' = [threads EXCEPT ![1] = f]

\* the body of `for dependent in dependents` as items, for each dependent of
\* the snapshot in turn
RECURSIVE CascadeItems(_)
CascadeItems(dependents) ==
    IF dependents = <<>>
    THEN <<>>
    ELSE <<EmitItem(Updating, Head(dependents), 2), Item("recipe", Head(dependents)),
           EmitItem(Updated, Head(dependents), 0)>> \o CascadeItems(Tail(dependents))

\* a call starts: op on the variable var (or creating a ty from recipe), with
\* the items todo
Begins(op, var, recipe, todo) ==
    /\ ~panicked
    /\ Call.pc = "idle"
    /\ Runs([Resting EXCEPT !.pc = "run", !.op = op, !.var = var, !.recipe = recipe,
                            !.todo = todo])
    /\ Kept

BeginCreate(ty, recipe) ==
    /\ CanAlloc
    /\ Begins("create", [id |-> NoId, ty |-> ty], recipe,
              <<Item("eval", NoId), EmitItem(Creating(ty), NoId, WholeCall),
                Item("store", NoId), EmitItem(Created(ty), NoId, 0)>>)

BeginRead(variable) ==
    /\ ~Absent(Sys, variable.id)
    /\ Begins("read", variable, Resting.recipe,
              <<EmitItem(Reading, variable.id, WholeCall), Item("readcb", variable.id),
                EmitItem(ReadEv, variable.id, 0)>>)

BeginUpdate(variable) ==
    /\ ~Absent(Sys, variable.id)
    /\ Begins("update", variable, Resting.recipe,
              <<EmitItem(Updating, variable.id, WholeCall), Item("callback", variable.id),
                Item("snapshot", variable.id)>>)

BeginDelete(variable) ==
    /\ ~Absent(Sys, variable.id)
    /\ ~HasDependents(Sys, variable.id)
    /\ Begins("delete", variable, Resting.recipe,
              <<EmitItem(Deleting, variable.id, WholeCall), Item("wipe", variable.id),
                Item("remove", variable.id), EmitItem(Deleted(variable.ty), NoId, 0)>>)

\* the host program emits the events it listens for, where it listens
BeginEmit(tgt, ety) ==
    /\ listeners[<<ety, tgt>>] # <<>>
    /\ Begins("emit", NoAct.var, Resting.recipe, <<EmitItem(ety, tgt, 0)>>)

\* emit: the handlers of the bucket are cloned, votes = Votes::default()
StepCollect ==
    /\ ~panicked
    /\ Call.pc = "run" /\ Call.todo # <<>> /\ Head(Call.todo).k = "emit"
    /\ Runs([Call EXCEPT !.hs = listeners[<<Head(Call.todo).ety, Head(Call.todo).tgt>>],
                         !.votes = VotesDefault,
                         !.todo = <<[Head(Call.todo) EXCEPT !.k = "loop"]>> \o Tail(@)])
    /\ Kept

\* emit: one handler runs; if abort { return Err(()) }, else its vote is tallied
StepHandler ==
    /\ ~panicked
    /\ Call.pc = "run" /\ Call.todo # <<>> /\ Head(Call.todo).k = "loop"
    /\ Call.hs # <<>>
    /\ Runs(IF Head(Call.hs).h.abort
            THEN [Call EXCEPT !.hs = <<>>, !.votes = EmitErr]
            ELSE [Call EXCEPT !.hs = Tail(@), !.votes = Tally(@, Head(Call.hs).h.vote)])
    /\ Kept

\* the items left after a dispatch that was cancelled
Skipped(f) ==
    IF Head(f.todo).skip = WholeCall
    THEN IF f.op = "create" THEN <<Item("release", NoId)>> ELSE <<>>
    ELSE SubSeq(f.todo, 2 + Head(f.todo).skip, Len(f.todo))

\* emit returns its votes: .map(|votes| votes.cancel > votes.proceed).unwrap_or(true)
StepTallied ==
    /\ ~panicked
    /\ Call.pc = "run" /\ Call.todo # <<>> /\ Head(Call.todo).k = "loop"
    /\ Call.hs = <<>>
    /\ Runs([Call EXCEPT !.todo = IF Cancelled(Call.votes) /\ Head(Call.todo).skip # 0
                                  THEN Skipped(Call)
                                  ELSE Tail(@)])
    /\ Kept

\* the state the stretch of code it of the call f leaves
Stretch(f, it) ==
    CASE it.k = "eval" ->
             [UserRecipe([Alloc(Sys).st EXCEPT !.tracking_id = Alloc(Sys).id], f.recipe).st
                  EXCEPT !.tracking_id = NoId]
      [] it.k = "store" ->
             [Sys EXCEPT !.values = MapInsert(@, f.id, [ty |-> f.var.ty, v |-> f.val]),
                         !.recipes = MapInsert(@, f.id,
                             [ty |-> f.var.ty, reads |-> f.recipe.reads, base |-> f.recipe.base])]
      [] it.k = "release" -> CreateCancelled(Sys, f.id).st
      [] it.k = "readcb" -> IF Absent(Sys, it.tgt) THEN Panic(Sys) ELSE Sys
      [] it.k = "callback" ->
             IF Absent(Sys, it.tgt) THEN Panic(Sys) ELSE Mutate(Sys, f.var, "set")
      [] it.k = "snapshot" -> Sys
      [] it.k = "recipe" ->
             IF it.tgt \notin DOMAIN recipes
             THEN Panic(Sys)
             ELSE [RecipeWrapper(Sys, it.tgt).st EXCEPT
                       !.values = MapInsert(@, it.tgt, RecipeWrapper(Sys, it.tgt).val)]
      [] it.k = "wipe" -> Wipe(Sys, it.tgt)
      [] it.k = "remove" ->
             IF Absent(Sys, it.tgt)
             THEN Panic(Sys)
             ELSE [Sys EXCEPT !.values = MapRemove(@, it.tgt)]

\* the call f after its stretch of code it
Stretched(f, it) ==
    CASE it.k = "eval" ->
             [f EXCEPT !.todo = Tail(@), !.id = Alloc(Sys).id,
                       !.val = UserRecipe([Alloc(Sys).st EXCEPT !.tracking_id = Alloc(Sys).id],
                                          f.recipe).val]
      [] it.k = "snapshot" ->
             [f EXCEPT !.snap = dependencies[it.tgt],
                       !.todo = CascadeItems(Dependents(Sys, it.tgt))
                                    \o <<EmitItem(Updated, it.tgt, 0)>>]
      [] it.k = "recipe" -> [f EXCEPT !.todo = Tail(@), !.ran = Append(@, it.tgt)]
      [] OTHER -> [f EXCEPT !.todo = Tail(@)]

\* the code between two dispatches runs
StepStretch ==
    /\ ~panicked
    /\ Call.pc = "run" /\ Call.todo # <<>> /\ Head(Call.todo).k \notin {"emit", "loop"}
    /\ Runs(Stretched(Call, Head(Call.todo)))
    /\ Leaves([st |-> Stretch(Call, Head(Call.todo))])

\* the call returns
StepReturn ==
    /\ ~panicked
    /\ Call.pc = "run" /\ Call.todo = <<>>
    /\ Runs(Resting)
    /\ Kept

Step == StepCollect \/ StepHandler \/ StepTallied \/ StepStretch \/ StepReturn

\* listen and silence have no dispatch: they are one step
NextSteps ==
    \/ \E ty \in host.types, recipe \in RecipeSet : BeginCreate(ty, recipe)
    \/ \E variable \in LiveHandles : BeginRead(variable)
    \/ \E variable \in LiveHandles : BeginUpdate(variable)
    \/ \E variable \in LiveHandles : BeginDelete(variable)
    \/ \E tgt \in TargetSet, ety \in host.events : BeginEmit(tgt, ety)
    \/ \E tgt \in TargetSet, ety \in host.events, h \in Menu :
           Call.pc = "idle" /\ DoListen(tgt, ety, h)
    \/ \E listener \in Registered : Call.pc = "idle" /\ DoSilence(listener)
    \/ StepCollect
    \/ StepHandler
    \/ StepTallied
    \/ StepStretch
    \/ StepReturn

\* A host program whose handlers vote Cancel on Creating and on Updating,
\* with room for a chain of three variables, or for two and a listener.
StepHosts ==
    {[types |-> {"i32"}, events |-> {Creating("i32"), Updating},
      handlers |-> {[vote |-> "Cancel", abort |-> FALSE]},
      acts |-> {}, nests |-> {}, stale |-> FALSE,
      callbacks |-> Callbacks, twice |-> FALSE, ids |-> NarrowIds]}

InitSteps ==
    /\ InitKernel(StepHosts)
    /\ threads = <<Resting>>
\* a call in progress is not left waiting: the thread goes on to its next step
SpecSteps == InitSteps /\ [][NextSteps]_vars /\ WF_vars(Step)

\* A host program with handlers of Updating and Updated that vote Cancel or
\* abort, and room for a variable with two dependents and a listener.
CascadeHosts ==
    {[types |-> {"i32"}, events |-> {Updating, Updated},
      handlers |-> {[vote |-> "Cancel", abort |-> FALSE], [vote |-> "Abstain", abort |-> TRUE]},
      acts |-> {}, nests |-> {}, stale |-> FALSE,
      callbacks |-> Callbacks, twice |-> FALSE, ids |-> WideIds]}

InitCascade == InitHost(CascadeHosts)
SpecCascade == InitCascade /\ [][Next]_vars

\* Host programs whose handlers of a cancellable event call back into the
\* system on live variables: a handler of Deleting creates a variable, a
\* handler of Reading or Updating deletes one.
ReentryHosts ==
    {[types |-> {"i32"}, events |-> {Deleting}, handlers |-> {},
      acts |-> {"create"}, nests |-> {<<"Deleting", "create">>}, stale |-> FALSE,
      callbacks |-> Callbacks, twice |-> FALSE, ids |-> NarrowIds],
     [types |-> {"i32"}, events |-> {Reading, Updating}, handlers |-> {},
      acts |-> {"delete"},
      nests |-> {<<"Reading", "delete">>, <<"Updating", "delete">>}, stale |-> FALSE,
      callbacks |-> Callbacks, twice |-> FALSE, ids |-> NarrowIds]}

InitReentry == InitHost(ReentryHosts)
SpecReentry == InitReentry /\ [][Next]_vars

\* A host program whose handlers of Created and Deleted call read, update and
\* listen on the event's source.
LifeHosts ==
    {[types |-> {"i32"}, events |-> {Created("i32"), Deleted("i32")}, handlers |-> {},
      acts |-> {"read", "update", "watch"},
      nests |-> {"Created", "Deleted"} \X {"read", "update", "watch"}, stale |-> TRUE,
      callbacks |-> Callbacks, twice |-> FALSE, ids |-> NarrowIds]}

InitLife == InitHost(LifeHosts)
SpecLife == InitLife /\ [][Next]_vars

\* =================================================================== claims
\* What a call does is read off the result and the trace the operation
\* returns when it is applied to the current state.

\* the IDs a recipe reads
ReadsOf(recipe) == {recipe.reads[i].id : i \in DOMAIN recipe.reads}
\* the places of the trace lg where the recipe of id was run
RecipeRuns(lg, id) == {i \in DOMAIN lg : lg[i].k = "recipe" /\ lg[i].tgt = id}
\* the places of lg where an event of type ety was emitted on tgt
Emits(lg, ety, tgt) ==
    {i \in DOMAIN lg : lg[i].k = "emit" /\ lg[i].ety = ety /\ lg[i].tgt = tgt}
\* the places of lg where an event of type ety was emitted
EmitsOf(lg, ety) == {i \in DOMAIN lg : lg[i].k = "emit" /\ lg[i].ety = ety}
\* a dispatch that ended with res was aborted or voted down
VotedDown(res) == res.aborted \/ res.cancel > res.proceed
\* no dispatch of lg of an event of type ety was aborted or voted down
NotCancelled(lg, ety) == \A i \in EmitsOf(lg, ety) : ~VotedDown(lg[i].res)
\* no dispatch of lg at all was aborted or voted down
NothingCancelled(lg) ==
    \A i \in DOMAIN lg : lg[i].k = "emit" => ~VotedDown(lg[i].res)

\* a recipe evaluated on the values vals: base + the sum of what it reads
RECURSIVE SumReads(_, _)
SumReads(vals, reads) ==
    IF reads = <<>>
    THEN 0
    ELSE (IF Head(reads).id \in DOMAIN vals THEN vals[Head(reads).id].v ELSE 0)
             + SumReads(vals, Tail(reads))
RecipeValue(st, id) == st.recipes[id].base + SumReads(st.values, st.recipes[id].reads)

\* C1 (as claimed): for every variable a and every variable d recorded as a
\* direct dependent of a whose creation recipe read a, an update(a, cb) in
\* which no Updating event is cancelled or aborted runs d's recipe exactly
\* once, after cb was applied to a, and stores the result as d's value.
C1_DependentRecomputedOnce ==
    \A a \in Callable, cb \in Callbacks :
        LET r == Update(Sys, a, cb)
            lg == r.st.log
        IN  NotCancelled(lg, Updating) =>
                \A d \in DOMAIN values \cap DOMAIN recipes :
                    (d \in dependencies[a.id] /\ a.id \in ReadsOf(recipes[d])) =>
                        /\ Cardinality(RecipeRuns(lg, d)) = 1
                        /\ \A i \in RecipeRuns(lg, d) :
                              /\ \E j \in 1 .. (i - 1) :
                                    lg[j].k = "update" /\ lg[j].tgt = a.id
                              /\ d \in DOMAIN r.st.values
                              /\ r.st.values[d].v = lg[i].val

\* C2 (as claimed): whenever a variable read within X's creation recipe is
\* updated (Updated is emitted for it), X's recipe is re-run; so when an
\* update call returns with nothing cancelled, X's stored value is its recipe
\* evaluated on the current values of the variables it read.
C2_ReadersRerunOnEveryUpdated ==
    \A a \in Callable, cb \in Callbacks :
        LET r == Update(Sys, a, cb)
            lg == r.st.log
        IN  (r.res.k = "Some" /\ NothingCancelled(lg)) =>
                \A x \in DOMAIN r.st.values \cap DOMAIN r.st.recipes :
                    (\E y \in ReadsOf(r.st.recipes[x]) : Emits(lg, Updated, y) # {}) =>
                        /\ RecipeRuns(lg, x) # {}
                        /\ r.st.values[x].v = RecipeValue(r.st, x)

\* C3 (as claimed): if B's recipe read A and C's recipe read B but not A, an
\* update(A, cb) in which no Updating event is cancelled or aborted re-runs
\* B's recipe, does not run C's recipe, leaves C's stored value unchanged and
\* emits neither Updating nor Updated on C.
C3_OnlyDirectDependents ==
    \A A \in Callable, cb \in Callbacks :
        \A B, C \in (DOMAIN values \cap DOMAIN recipes) \ {A.id} :
            (/\ B # C
             /\ A.id \in ReadsOf(recipes[B])
             /\ B \in ReadsOf(recipes[C])
             /\ A.id \notin ReadsOf(recipes[C])) =>
                LET r == Update(Sys, A, cb)
                    lg == r.st.log
                IN  NotCancelled(lg, Updating) =>
                        /\ RecipeRuns(lg, B) # {}
                        /\ RecipeRuns(lg, C) = {}
                        /\ C \in DOMAIN r.st.values /\ r.st.values[C] = values[C]
                        /\ Emits(lg, Updating, C) = {}
                        /\ Emits(lg, Updated, C) = {}

\* the live variables whose recipe reads id
Readers(id) == {d \in DOMAIN values \cap DOMAIN recipes : id \in ReadsOf(recipes[d])}

\* C4 (as claimed): delete(a) on a live variable a whose dependent set is
\* non-empty returns Err, emits nothing and leaves the state unchanged; once
\* every dependent of a (every variable whose recipe reads a) has been
\* deleted, delete(a) succeeds unless its Deleting event is cancelled.
C4_DeleteGuard ==
    \A a \in Callable :
        LET r == Delete(Sys, a) IN
        /\ dependencies[a.id] # {} => r = [st |-> Sys, res |-> RetErr]
        /\ (Readers(a.id) = {} /\ ~VotedDown(Emit(Sys, a.id, Deleting).res)) =>
               r.res.k = "Some"

\* the program is running and can allocate an ID within the bound
CanCreate == ~panicked /\ CanAlloc

\* a and b as the Counter cascade scenario creates them (a <- 0, b <- a + 1),
\* no listener registered
CounterCascade(a, b) ==
    /\ ~panicked /\ a # b
    /\ a.id \in DOMAIN recipes /\ b.id \in DOMAIN recipes
    /\ recipes[a.id].reads = <<>> /\ recipes[a.id].base = 0
    /\ recipes[b.id].reads = <<a>> /\ recipes[b.id].base = 1
    /\ values[a.id].v = 0 /\ values[b.id].v = 1
    /\ dependencies[a.id] = {b.id} /\ dependencies[b.id] = {}
    /\ \A bk \in DOMAIN listeners : listeners[bk] = <<>>

\* the results of delete(a), delete(b), delete(a), delete(a) made from st
DanglingGuard(st, a, b) ==
    LET d1 == Delete(st, a)
        d2 == Delete(d1.st, b)
        d3 == Delete(d2.st, a)
        d4 == Delete(d3.st, a)
    IN  <<d1.res, d2.res, d3.res, d4.res>>

\* C5 (amended): with a and b as created by the Counter cascade scenario,
\* delete(a) returns Err, then delete(b) returns Ok(Some(1)), then delete(a)
\* returns Ok(Some(0)), a's own value, then delete(a) returns Ok(None); after
\* the scenario's update of a to 1 the four results are Err, Ok(Some(2)),
\* Ok(Some(1)), Ok(None).
C5_DanglingGuardScenario ==
    \A a, b \in LiveHandles :
        CounterCascade(a, b) =>
            /\ DanglingGuard(Sys, a, b) = <<RetErr, RetSome(1), RetSome(0), RetNone>>
            /\ \A cb \in Callbacks :
                  LET u == Update(Sys, a, cb) IN
                  /\ u.res = RetSome(1)
                  /\ DanglingGuard(u.st, a, b) = <<RetErr, RetSome(2), RetSome(1), RetNone>>

\* C5 (as claimed): with a and b as created by the Counter cascade scenario,
\* the four deletes return Err, Ok(Some(1)), Ok(Some(1)), Ok(None).
C5_AsClaimed ==
    \A a, b \in LiveHandles :
        CounterCascade(a, b) =>
            DanglingGuard(Sys, a, b) = <<RetErr, RetSome(1), RetSome(1), RetNone>>

C5_Witness ==
    \E a, b \in LiveHandles :
        /\ CounterCascade(a, b)
        /\ DanglingGuard(Sys, a, b)[3] = RetSome(0)

\* no Reading dispatch of lg was aborted or voted down
ReadsAllowed(lg) == NotCancelled(lg, Reading)

\* C6: a successful delete(v) returns the most recent value of v: made right
\* after create(recipe) -> v it returns the value the recipe produced at
\* creation (base + the values read, whatever the Creating handlers do); in
\* any state it returns the stored value; after update(a, cb) it returns for a
\* the value cb left and for a recomputed dependent the value its last
\* recipe run produced.
C6_DeleteReturnsMostRecentValue ==
    /\ CanCreate =>
          \A ty \in host.types, recipe \in RecipeSet :
              LET c == Create(Sys, ty, recipe)
                  v == [id |-> c.res.v, ty |-> ty]
                  d == Delete(c.st, v)
              IN  (c.res.k = "Some" /\ d.res.k = "Some") =>
                      /\ Cardinality(RecipeRuns(c.st.log, v.id)) = 1
                      /\ \A i \in RecipeRuns(c.st.log, v.id) : d.res.v = c.st.log[i].val
                      /\ ReadsAllowed(c.st.log) =>
                             d.res.v = recipe.base + SumReads(values, recipe.reads)
    /\ \A v \in Callable :
          LET d == Delete(Sys, v) IN
          d.res.k = "Some" => d.res.v = values[v.id].v
    /\ \A a \in Callable, cb \in Callbacks :
          LET u == Update(Sys, a, cb)
              lg == u.st.log
          IN  u.res.k = "Some" =>
                  /\ LET d == Delete(u.st, a) IN
                     d.res.k = "Some" =>
                         /\ d.res.v = ApplyCallback(cb, values[a.id].v)
                         /\ \E i \in DOMAIN lg :
                               lg[i].k = "update" /\ lg[i].tgt = a.id /\ lg[i].val = d.res.v
                  /\ \A x \in DOMAIN u.st.values :
                        LET d == Delete(u.st, [id |-> x, ty |-> u.st.values[x].ty]) IN
                        (d.res.k = "Some" /\ RecipeRuns(lg, x) # {}) =>
                            \E i \in RecipeRuns(lg, x) :
                                /\ \A j \in RecipeRuns(lg, x) : j <= i
                                /\ d.res.v = lg[i].val

C6_Witness ==
    /\ CanCreate
    /\ \E ty \in host.types, recipe \in RecipeSet :
          LET c == Create(Sys, ty, recipe) IN
          /\ recipe.reads # <<>> /\ c.res.k = "Some"
          /\ Delete(c.st, [id |-> c.res.v, ty |-> ty]).res = RetSome(1)
    /\ \E a \in Callable, x \in DOMAIN values :
          LET u == Update(Sys, a, "set") IN
          /\ x \in dependencies[a.id] /\ values[x].v = 1 /\ u.res.k = "Some"
          /\ Delete(u.st, [id |-> x, ty |-> values[x].ty]).res = RetSome(2)

\* the result of a soft miss in state st: Ok(None) (None for listen), the
\* state untouched, nothing emitted, no callback run
SoftMiss(st) == [st |-> st, res |-> RetNone]

\* every operation on the handle h misses softly in state st
MissesSoftly(st, h) ==
    /\ Read(st, h) = SoftMiss(st)
    /\ \A cb \in Callbacks : Update(st, h, cb) = SoftMiss(st)
    /\ Delete(st, h) = SoftMiss(st)
    /\ \A ety \in EventTypes, hd \in HandlerSet : Listen(st, h.id, ety, hd) = SoftMiss(st)

\* C7: for an ID absent from the value store, and for every variable right
\* after its delete succeeded, read, update and delete return Ok(None) and
\* listen with that target returns None, whatever listeners are registered;
\* no callback runs, no event is emitted, no ID is allocated and the kernel
\* state is unchanged.
C7_SoftMiss ==
    ~panicked =>
        /\ \A h \in Handles : h.id \notin DOMAIN values => MissesSoftly(Sys, h)
        /\ \A a \in LiveHandles :
              LET d == Delete(Sys, a) IN
              d.res.k = "Some" => MissesSoftly(d.st, a)

C7_Witness ==
    /\ ~panicked
    /\ \E bk \in DOMAIN listeners : listeners[bk] # <<>>
    /\ \E h \in Handles :
          /\ h.id \notin DOMAIN values
          /\ \E i \in DOMAIN id_pool : id_pool[i] = h.id
          /\ Update(Sys, h, "set").res = RetNone
    /\ \E a \in LiveHandles : Delete(Sys, a).res.k = "Some"

\* the ID the next allocation returns in state st
NextId(st) == IF st.id_pool # <<>> THEN st.id_pool[Len(st.id_pool)] ELSE st.next_id

\* C8: if the Creating event of a create call is cancelled (cancel > proceed)
\* or aborted, create returns Err, no value and no recipe is stored under the
\* allocated ID (the two tables are as before), no Created event is emitted,
\* and the allocated ID is on top of the free pool, so that the next
\* allocation returns it.
C8_CancelledCreateReleasesId ==
    CanCreate =>
        \A ty \in host.types, recipe \in RecipeSet :
            LET c == Create(Sys, ty, recipe)
                lg == c.st.log
                id == NextId(Sys)
            IN  (\E i \in EmitsOf(lg, Creating(ty)) : VotedDown(lg[i].res)) =>
                    /\ c.res = RetErr
                    /\ c.st.values = values /\ c.st.recipes = recipes
                    /\ id \notin DOMAIN c.st.values /\ id \notin DOMAIN c.st.recipes
                    /\ EmitsOf(lg, Created(ty)) = {}
                    /\ NextId(c.st) = id
                    /\ c.st.id_pool # <<>> /\ c.st.id_pool[Len(c.st.id_pool)] = id
                    /\ Alloc(c.st).id = id

\* a create that pops its ID from the pool is outvoted
C8_Witness ==
    /\ CanCreate /\ id_pool # <<>>
    /\ \E ty \in host.types, recipe \in RecipeSet :
          LET c == Create(Sys, ty, recipe) IN
          /\ \E i \in EmitsOf(c.st.log, Creating(ty)) :
                c.st.log[i].res.cancel > c.st.log[i].res.proceed
          /\ c.res = RetErr
          /\ c.st.id_pool = id_pool

\* C9 (amended): after a create call that is cancelled by a listener on
\* Creating, the free pool is exactly as before the call if it was non-empty
\* (the ID popped is pushed back); if it was empty, the ID minted from
\* next_id is pushed, so the pool holds that one ID (its size grows by one)
\* and next_id has advanced by one.
C9_PoolAfterCancelledCreate ==
    CanCreate =>
        \A ty \in host.types, recipe \in RecipeSet :
            LET c == Create(Sys, ty, recipe) IN
            c.res = RetErr =>
                IF id_pool # <<>>
                THEN c.st.id_pool = id_pool /\ c.st.next_id = next_id
                ELSE c.st.id_pool = <<next_id>> /\ c.st.next_id = next_id + 1

\* C9 (as claimed): after a create call that is cancelled by a listener on
\* Creating, the size of the free pool is what it was before the call,
\* whether the pool was empty or not.
C9_AsClaimed ==
    CanCreate =>
        \A ty \in host.types, recipe \in RecipeSet :
            LET c == Create(Sys, ty, recipe) IN
            c.res = RetErr => Len(c.st.id_pool) = Len(id_pool)

C9_Witness ==
    /\ CanCreate /\ id_pool = <<>>
    /\ \E ty \in host.types, recipe \in RecipeSet :
          LET c == Create(Sys, ty, recipe) IN
          c.res = RetErr /\ Len(c.st.id_pool) = 1

\* how many handlers of a bucket cast the vote v
RECURSIVE CountVotes(_, _)
CountVotes(bucket, v) ==
    IF bucket = <<>>
    THEN 0
    ELSE (IF Head(bucket).h.vote = v THEN 1 ELSE 0) + CountVotes(Tail(bucket), v)

\* the handlers of a bucket veto: one of them aborts, or more of them vote
\* Cancel than Proceed
Vetoed(bucket) ==
    \/ \E i \in DOMAIN bucket : bucket[i].h.abort
    \/ CountVotes(bucket, "Cancel") > CountVotes(bucket, "Proceed")

PostEvents == {"Created", "Read", "Updated", "Deleted"}
\* the kernel state without the listeners for Created, Read, Updated, Deleted
\* and without the trace
StripPost(st) ==
    [st EXCEPT !.listeners = [bk \in DOMAIN @ |-> IF bk[1][1] \in PostEvents THEN <<>> ELSE @[bk]],
               !.log = <<>>]
\* a call leaves the same result and state with and without those listeners
SameOutcome(with, without) ==
    with.res = without.res /\ StripPost(with.st) = StripPost(without.st)

\* C10: a create, read, update or delete (of a variable without dependents)
\* returns Err if and only if the handlers registered for its cancellable
\* event (Creating globally; Reading, Updating, Deleting on the variable)
\* abort or cast more Cancel than Proceed votes; a tie, including no votes at
\* all, lets the operation proceed; and the handlers registered for Created,
\* Read, Updated and Deleted change neither the result nor the state left.
C10_CancelledIffVotedDown ==
    ~panicked =>
        /\ CanAlloc =>
              \A ty \in host.types, recipe \in RecipeSet :
                  LET c == Create(Sys, ty, recipe) IN
                  /\ (c.res = RetErr) <=> Vetoed(listeners[<<Creating(ty), NoId>>])
                  /\ SameOutcome(c, Create(StripPost(Sys), ty, recipe))
        /\ \A a \in LiveHandles :
              /\ (Read(Sys, a).res = RetErr) <=> Vetoed(listeners[<<Reading, a.id>>])
              /\ SameOutcome(Read(Sys, a), Read(StripPost(Sys), a))
              /\ \A cb \in Callbacks :
                    /\ (Update(Sys, a, cb).res = RetErr)
                           <=> Vetoed(listeners[<<Updating, a.id>>])
                    /\ SameOutcome(Update(Sys, a, cb), Update(StripPost(Sys), a, cb))
              /\ dependencies[a.id] = {} =>
                    ((Delete(Sys, a).res = RetErr) <=> Vetoed(listeners[<<Deleting, a.id>>]))
              /\ SameOutcome(Delete(Sys, a), Delete(StripPost(Sys), a))

\* a tie of one Cancel and one Proceed vote on Updating lets update proceed
C10_Witness ==
    /\ ~panicked
    /\ \E a \in LiveHandles :
          /\ CountVotes(listeners[<<Updating, a.id>>], "Cancel") = 1
          /\ CountVotes(listeners[<<Updating, a.id>>], "Proceed") = 1
          /\ Update(Sys, a, "set").res = RetSome(1)

\* ----------------------------------------------------------------- C11
\* the number of votes of a tally
TallyOf(votes) == votes.abstain + votes.cancel + votes.proceed

\* C11: every emit that no handler aborts returns a tally whose abstain,
\* cancel and proceed counts add up to the number of handlers that were in
\* the (event type, target) bucket when the emit began, whatever the handlers
\* do to the bucket meanwhile; each handler that leaves its vote untouched is
\* one abstain.
C11_TallyCountsEveryHandler ==
    ~panicked =>
        \A tgt \in TargetSet, ety \in host.events :
            EmitOp(Sys, tgt, ety).res.k = "Some" =>
                /\ TallyOf(EmitOp(Sys, tgt, ety).res.v) = Len(listeners[<<ety, tgt>>])
                /\ EmitOp(Sys, tgt, ety).res.v.abstain
                       = CountVotes(listeners[<<ety, tgt>>], "Abstain")
                /\ EmitOp(Sys, tgt, ety).res.v.cancel
                       = CountVotes(listeners[<<ety, tgt>>], "Cancel")
                /\ EmitOp(Sys, tgt, ety).res.v.proceed
                       = CountVotes(listeners[<<ety, tgt>>], "Proceed")

\* an emit returns the tally of a bucket with an abstaining and a proceeding
\* handler, one of which registered a further handler during the dispatch
C11_Witness ==
    /\ ~panicked
    /\ \E tgt \in TargetSet, ety \in host.events :
           /\ EmitOp(Sys, tgt, ety).res.k = "Some"
           /\ CountVotes(listeners[<<ety, tgt>>], "Abstain") >= 1
           /\ CountVotes(listeners[<<ety, tgt>>], "Proceed") >= 1
           /\ Len(EmitOp(Sys, tgt, ety).st.listeners[<<ety, tgt>>])
                  > Len(listeners[<<ety, tgt>>])

\* ----------------------------------------------------------------- C12
\* the IDs of the listeners of a bucket, in its order
Ids(bucket) == [i \in DOMAIN bucket |-> bucket[i].id]
\* the entry of the dispatch a call of emit logged: the last of its trace
Outer(lg) == lg[Len(lg)]
\* the handler is written to set abort: always, or when its variable is set
CanAbort(h) == h.abort \/ ActOf(h).k = "trigger"
\* the kernel state without the trace
StripLog(st) == [st EXCEPT !.log = <<>>]
\* the handler of the doc test of emit on the variable x
Trigger(x) == Acting("trigger", x)
\* no handler stands in the way of update(x, ..)
Updatable(x) == ~Vetoed(listeners[<<Updating, x.id>>])

\* C12: an abort stops the dispatch at once.  An emit returns Err exactly
\* with the handlers up to the aborting one invoked, in order, and none
\* after it; a handler that always aborts, reached before any other that
\* may, ends the emit with Err there; when the first handler aborts without
\* a call the state is left as it was; the update an earlier handler made
\* stays although a later one aborts, and so does the Read event the aborting
\* handler caused; and the handler of the doc test, which sets its variable
\* on the first emission and aborts from the second on, makes the first emit
\* Ok and the second Err.
C12_AbortStopsDispatch ==
    ~panicked =>
        \A tgt \in TargetSet, ety \in host.events :
            LET b == listeners[<<ety, tgt>>]
                r == EmitOp(Sys, tgt, ety)
                o == Outer(r.st.log)
            IN  ~r.st.panicked =>
                    /\ o.k = "emit" /\ o.ety = ety /\ o.tgt = tgt
                    /\ r.res = RetErr =>
                           /\ o.fired # <<>> /\ Len(o.fired) <= Len(b)
                           /\ o.fired = SubSeq(Ids(b), 1, Len(o.fired))
                           /\ CanAbort(b[Len(o.fired)].h)
                           /\ \A i \in 1 .. Len(o.fired) - 1 : ~b[i].h.abort
                    /\ r.res # RetErr => o.fired = Ids(b)
                    /\ \A i \in DOMAIN b :
                           (b[i].h.abort /\ \A j \in 1 .. i - 1 : ~CanAbort(b[j].h)) =>
                               /\ r.res = RetErr
                               /\ o.fired = SubSeq(Ids(b), 1, i)
                    /\ (b # <<>> /\ b[1].h.abort) => StripLog(r.st) = Sys
                    /\ \A x \in LiveHandles :
                           /\ (/\ Len(b) >= 2 /\ b[1].h = Trigger(x) /\ b[2].h.abort
                               /\ values[x.id].v = 0 /\ Updatable(x)) =>
                                  /\ r.res = RetErr
                                  /\ r.st.values[x.id].v = 1
                           /\ (Len(b) = 1 /\ b[1].h = Trigger(x)
                               /\ values[x.id].v = 1) =>
                                  /\ r.res = RetErr
                                  /\ Emits(r.st.log, ReadEv, x.id) # {}
                           /\ (Len(b) = 1 /\ b[1].h = Trigger(x)
                               /\ values[x.id].v = 0 /\ Updatable(x)) =>
                                  /\ r.res.k = "Some"
                                  /\ r.st.values[x.id].v = 1
                                  /\ EmitOp(StripLog(r.st), tgt, ety).res = RetErr

\* an emit returns Err after a handler set its variable and the next one
\* aborted, with the variable left set
C12_Witness ==
    /\ ~panicked
    /\ \E tgt \in TargetSet, ety \in host.events, x \in LiveHandles :
           /\ Len(listeners[<<ety, tgt>>]) = 2
           /\ listeners[<<ety, tgt>>][1].h = Trigger(x)
           /\ listeners[<<ety, tgt>>][2].h.abort
           /\ values[x.id].v = 0
           /\ EmitOp(Sys, tgt, ety).res = RetErr
           /\ EmitOp(Sys, tgt, ety).st.values[x.id].v = 1

\* ----------------------------------------------------------------- C13
\* the buckets
Buckets == EventTypes \X TargetSet
\* a call left the buckets other than bk as they were
OthersKept(st, bk) == \A c \in Buckets \ {bk} : st.listeners[c] = listeners[c]
\* the handlers an emit on a bucket invokes if they come in the bucket's order:
\* all of them, or those up to the first that aborts
RECURSIVE UpToAbort(_)
UpToAbort(bucket) ==
    IF bucket = <<>>
    THEN <<>>
    ELSE IF Head(bucket).h.abort
         THEN <<Head(bucket).id>>
         ELSE <<Head(bucket).id>> \o UpToAbort(Tail(bucket))

\* C13: the handlers of a bucket are invoked in the order their listeners
\* were registered.  Every emit invokes the handlers in the order of the
\* bucket; every listen puts the new listener after all those of its bucket
\* and leaves their order, so that the next emit invokes it last; every
\* silence takes one listener out and leaves the others in their order; and
\* no other operation reorders a bucket (delete empties the buckets of its
\* target).
C13_RegistrationOrder ==
    ~panicked =>
        /\ \A tgt \in TargetSet, ety \in host.events :
               Outer(EmitOp(Sys, tgt, ety).st.log).fired = UpToAbort(listeners[<<ety, tgt>>])
        /\ CanAlloc =>
               \A tgt \in TargetSet, ety \in host.events, h \in Menu :
                   LET l == Listen(Sys, tgt, ety, h)
                       b == l.st.listeners[<<ety, tgt>>]
                   IN  l.res.k = "Some" =>
                           /\ b = Append(listeners[<<ety, tgt>>], [id |-> l.res.v, h |-> h])
                           /\ \A i \in DOMAIN listeners[<<ety, tgt>>] :
                                  listeners[<<ety, tgt>>][i].id # l.res.v
                           /\ OthersKept(l.st, <<ety, tgt>>)
                           /\ Outer(EmitOp(l.st, tgt, ety).st.log).fired = UpToAbort(b)
        /\ \A l \in Registered :
               LET s == Silence(Sys, l)
                   b == s.st.listeners[<<l.ety, l.target>>]
               IN  /\ b = SelectSeq(listeners[<<l.ety, l.target>>], LAMBDA x : x.id # l.id)
                   /\ OthersKept(s.st, <<l.ety, l.target>>)
                   /\ Outer(EmitOp(StripLog(s.st), l.target, l.ety).st.log).fired = UpToAbort(b)
        /\ \A v \in Handles, bk \in Buckets :
               /\ Read(Sys, v).st.listeners = listeners
               /\ \A cb \in host.callbacks : Update(Sys, v, cb).st.listeners = listeners
               /\ Delete(Sys, v).st.listeners[bk] \in {listeners[bk], <<>>}
        /\ CanCreate =>
               \A ty \in host.types, recipe \in RecipeSet :
                   Create(Sys, ty, recipe).st.listeners = listeners

\* a bucket of three listeners none of which aborts is emitted to after its
\* first listener was silenced: the second, then the third are invoked
C13_Witness ==
    /\ ~panicked
    /\ \E l \in Registered :
           /\ Len(listeners[<<l.ety, l.target>>]) = 3
           /\ listeners[<<l.ety, l.target>>][1].id = l.id
           /\ \A i \in 1 .. 3 : ~listeners[<<l.ety, l.target>>][i].h.abort
           /\ Outer(EmitOp(StripLog(Silence(Sys, l).st), l.target, l.ety).st.log).fired
                  = <<listeners[<<l.ety, l.target>>][2].id,
                      listeners[<<l.ety, l.target>>][3].id>>

\* ----------------------------------------------------------------- C14
\* the IDs of the listeners of a bucket
IdsIn(bucket) == {bucket[i].id : i \in DOMAIN bucket}

\* C14: events are local.  emit(Some(v), e) invokes handlers registered for
\* e's type with target v and no others, and all of them unless one aborts;
\* emit(None, e) likewise those registered for e's type with target None; a
\* listener of another target or another event type, which is in no bucket
\* but its own, is not invoked: variable events do not reach global handlers
\* and global events reach no variable's handlers.
C14_EventsAreLocal ==
    ~panicked =>
        \A tgt \in TargetSet, ety \in host.events :
            LET lg == EmitOp(Sys, tgt, ety).st.log
            IN  /\ Len(lg) = 1 /\ lg[1].k = "emit" /\ lg[1].ety = ety /\ lg[1].tgt = tgt
                /\ {lg[1].fired[j] : j \in DOMAIN lg[1].fired} \subseteq IdsIn(listeners[<<ety, tgt>>])
                /\ EmitOp(Sys, tgt, ety).res.k = "Some" =>
                       lg[1].fired = Ids(listeners[<<ety, tgt>>])
                /\ \A bk \in Buckets \ {<<ety, tgt>>} :
                       /\ IdsIn(listeners[bk]) \cap IdsIn(listeners[<<ety, tgt>>]) = {}
                       /\ \A j \in DOMAIN lg[1].fired : lg[1].fired[j] \notin IdsIn(listeners[bk])

\* a variable and the global scope each have a listener for the same event
\* type: the emit on the variable invokes the first only, the global emit the
\* second only
C14_Witness ==
    /\ ~panicked
    /\ \E v \in IdSet, ety \in host.events :
           /\ Len(listeners[<<ety, v>>]) = 1
           /\ Len(listeners[<<ety, NoId>>]) = 1
           /\ Outer(EmitOp(Sys, v, ety).st.log).fired = <<listeners[<<ety, v>>][1].id>>
           /\ Outer(EmitOp(Sys, NoId, ety).st.log).fired = <<listeners[<<ety, NoId>>][1].id>>

\* ----------------------------------------------------------------- C15
\* the ID was handed out and is now neither a variable, nor free, nor the ID
\* of a registered listener
Retired(i) ==
    /\ i < next_id
    /\ i \notin DOMAIN values
    /\ \A n \in DOMAIN id_pool : id_pool[n] # i
    /\ \A bk \in Buckets : i \notin IdsIn(listeners[bk])
\* the kernel state st, as the state of the program
Retires(st, i) ==
    /\ i < st.next_id
    /\ i \notin DOMAIN st.values
    /\ \A n \in DOMAIN st.id_pool : st.id_pool[n] # i
    /\ \A bk \in Buckets : i \notin IdsIn(st.listeners[bk])

\* what silence does in a state
SilenceRetires ==
    ~panicked =>
        \A l \in Registered :
            LET s == Silence(Sys, l)
            IN  /\ s.res = RetSome(0)
                /\ Retires(s.st, l.id)
                /\ \A tgt \in TargetSet, ety \in host.events :
                       \A j \in 1 .. Len(Outer(EmitOp(StripLog(s.st), tgt, ety).st.log).fired) :
                           Outer(EmitOp(StripLog(s.st), tgt, ety).st.log).fired[j] # l.id
                /\ Silence(s.st, l) = [st |-> s.st, res |-> RetNone]

\* C15: silence(l) on a registered listener returns Some(()) and takes l out
\* of its bucket, so that no emit invokes its handler; its ID is then neither
\* registered, nor a variable, nor free, and an ID in that condition stays in
\* it through every later operation, so the handler is never invoked again;
\* a second silence(l) returns None and changes nothing.
C15_SilenceIsFinal ==
    /\ []SilenceRetires
    /\ [][\A i \in IdSet : Retired(i) => Retired(i)']_vars

\* a listener whose handler an emit invokes is silenced, and the same emit
\* no longer invokes it
C15_Witness ==
    /\ ~panicked
    /\ \E l \in Registered :
           /\ \E j \in 1 .. Len(Outer(EmitOp(Sys, l.target, l.ety).st.log).fired) :
                  Outer(EmitOp(Sys, l.target, l.ety).st.log).fired[j] = l.id
           /\ Silence(Sys, l).res = RetSome(0)
           /\ Len(listeners[<<l.ety, l.target>>]) >= 2
           /\ Retires(Silence(Sys, l).st, l.id)

\* ----------------------------------------------------------------- C16
\* a handler of the bucket makes the call k
HasAct(bucket, k) == \E i \in DOMAIN bucket : ActOf(bucket[i].h).k = k

\* C16: the handlers an emit invokes are those of its bucket when it began.
\* Whatever the handlers do during the dispatch (register a listener in the
\* bucket, silence one that is still to come, delete the target and with it
\* every listener of the bucket), the handlers invoked are the bucket as it
\* was, in its order, up to an abort; a listener registered during the
\* dispatch is not invoked by it; and the next emit invokes the bucket as the
\* dispatch left it: the new listener last, the removed ones not at all.
C16_HandlerSetFixedAtEmit ==
    ~panicked =>
        \A tgt \in TargetSet, ety \in host.events :
            LET b == listeners[<<ety, tgt>>]
                r == EmitOp(Sys, tgt, ety)
                f == Outer(r.st.log).fired
                b2 == r.st.listeners[<<ety, tgt>>]
                r2 == EmitOp(StripLog(r.st), tgt, ety)
                f2 == Outer(r2.st.log).fired
            IN  ~r.st.panicked =>
                    /\ Len(f) <= Len(b) /\ f = SubSeq(Ids(b), 1, Len(f))
                    /\ r.res.k = "Some" => f = Ids(b)
                    /\ \A i \in DOMAIN b2 :
                           b2[i].id \notin IdsIn(b) => \A j \in DOMAIN f : f[j] # b2[i].id
                    /\ ~r2.st.panicked =>
                           /\ Len(f2) <= Len(b2) /\ f2 = SubSeq(Ids(b2), 1, Len(f2))
                           /\ r2.res.k = "Some" => f2 = Ids(b2)
                    /\ (/\ r.res.k = "Some" /\ HasAct(b, "listen")
                        /\ ~HasAct(b, "silence") /\ ~HasAct(b, "delete")
                        /\ (tgt = NoId \/ tgt \in DOMAIN values)) =>
                           /\ Len(b2) > Len(b)
                           /\ SubSeq(b2, 1, Len(b)) = b
                           /\ b2[Len(b2)].h = Late
                           /\ b2[Len(b2)].id \notin IdsIn(b)
                    /\ (r.res.k = "Some" /\ HasAct(b, "delete") /\ tgt # NoId /\ tgt \notin DOMAIN r.st.values) =>
                           /\ b2 = <<>>
                           /\ f2 = <<>>

\* the first handler of a bucket silences the second, which registers a
\* listener: the dispatch invokes both and not the new one, the next dispatch
\* the first and the new one
C16_Witness ==
    /\ ~panicked
    /\ \E tgt \in TargetSet, ety \in host.events :
           /\ Len(listeners[<<ety, tgt>>]) = 2
           /\ ActOf(listeners[<<ety, tgt>>][1].h).k = "silence"
           /\ ActOf(listeners[<<ety, tgt>>][2].h).k = "listen"
           /\ EmitOp(Sys, tgt, ety).res.k = "Some"
           /\ Outer(EmitOp(Sys, tgt, ety).st.log).fired = Ids(listeners[<<ety, tgt>>])
           /\ Len(EmitOp(Sys, tgt, ety).st.listeners[<<ety, tgt>>]) = 2
           /\ EmitOp(Sys, tgt, ety).st.listeners[<<ety, tgt>>][1] = listeners[<<ety, tgt>>][1]
           /\ EmitOp(Sys, tgt, ety).st.listeners[<<ety, tgt>>][2].h = Late

\* ----------------------------------------------------------------- C17
\* the handlers invoked by the dispatches of the trace lg on the target tgt
FiredOn(lg, tgt) ==
    {i \in DOMAIN lg : lg[i].k = "emit" /\ lg[i].tgt = tgt /\ lg[i].fired # <<>>}

\* C17: when delete(v) succeeds no listener with target v is left in any
\* bucket, while the listeners of the global scope and of the other variables
\* are all kept; the next create is given v's ID, and no emit on the new
\* variable, nor any read, update or delete of it, invokes a handler.
C17_DeleteRemovesListeners ==
    \A v \in Callable :
        LET d == Delete(Sys, v)
        IN  d.res.k = "Some" =>
                /\ \A bk \in Buckets :
                       d.st.listeners[bk] = IF bk[2] = v.id THEN <<>> ELSE listeners[bk]
                /\ \A ty \in host.types, recipe \in {[reads |-> <<>>, base |-> 0]} :
                       LET c == Create(StripLog(d.st), ty, recipe)
                           n == [id |-> c.res.v, ty |-> ty]
                       IN  c.res.k = "Some" =>
                               /\ n.id = v.id
                               /\ \A ety \in host.events :
                                      Outer(EmitOp(StripLog(c.st), n.id, ety).st.log).fired = <<>>
                               /\ FiredOn(Read(c.st, n).st.log, n.id) = {}
                               /\ \A cb \in Callbacks :
                                      FiredOn(Update(c.st, n, cb).st.log, n.id) = {}
                               /\ FiredOn(Delete(c.st, n).st.log, n.id) = {}

\* a variable with a listener is deleted while a global listener is
\* registered, and the next create is given its ID
C17_Witness ==
    /\ ~panicked
    /\ \E v \in Callable, ety \in host.events :
           /\ listeners[<<ety, v.id>>] # <<>>
           /\ listeners[<<CustomEvent, NoId>>] # <<>>
           /\ Delete(Sys, v).res.k = "Some"
           /\ Delete(Sys, v).st.listeners[<<ety, v.id>>] = <<>>
           /\ Delete(Sys, v).st.listeners[<<CustomEvent, NoId>>] = listeners[<<CustomEvent, NoId>>]
           /\ Create(StripLog(Delete(Sys, v).st), v.ty, [reads |-> <<>>, base |-> 0]).res
                  = RetSome(v.id)

\* ----------------------------------------------------------------- C18
\* no call made by user code during the call that left the trace lg found a
\* guard of the cell alive
NoGuardHit(lg) == \A i \in DOMAIN lg : lg[i].k # "guard"

\* the calls of the host program whose user code is handlers and recipes
HandlersAndRecipesReenter ==
    ~panicked =>
        /\ \A tgt \in TargetSet, ety \in host.events : NoGuardHit(EmitOp(Sys, tgt, ety).st.log)
        /\ \A v \in Handles :
               /\ NoGuardHit(Read(Sys, v).st.log)
               /\ NoGuardHit(Delete(Sys, v).st.log)
               /\ \A cb \in Callbacks : NoGuardHit(Update(Sys, v, cb).st.log)
        /\ CanAlloc =>
               \A ty \in host.types, recipe \in RecipeSet :
                   NoGuardHit(Create(Sys, ty, recipe).st.log)

\* C18: no guard of the cell is held while user code runs: a call into the
\* system made by a handler, by a recipe or by the callback of an update
\* finds no guard alive, so that it returns instead of spinning on the mutex
\* or panicking on the borrow.
C18_GuardReleasedAcrossUserCode ==
    /\ HandlersAndRecipesReenter
    /\ ~panicked =>
           \A v \in Handles, cb \in host.callbacks : NoGuardHit(Update(Sys, v, cb).st.log)

\* ----------------------------------------------------------------- C19
\* the places of lg where the callback of a read of the variable id ran
ReadsAt(lg, id) == {i \in DOMAIN lg : lg[i].k = "read" /\ lg[i].tgt = id}
\* the places of lg where the callback of an update of the variable id ran
UpdatesAt(lg, id) == {i \in DOMAIN lg : lg[i].k = "update" /\ lg[i].tgt = id}
\* the number of handlers of the bucket that read the variable x
RECURSIVE ReadersIn(_, _)
ReadersIn(bucket, x) ==
    IF bucket = <<>>
    THEN 0
    ELSE (IF ActOf(Head(bucket).h) = [k |-> "read", var |-> x] THEN 1 ELSE 0)
             + ReadersIn(Tail(bucket), x)

\* C19: in update(v, cb) the handlers of Updating on v run before cb and
\* those of Updated on v after it: each read of v made by a handler of
\* Updating on v sees the value v had before the update, and each read of v
\* made by a handler of Updated on v (up to one that aborts) sees the value
\* cb left.
C19_HandlersSeePreAndPostValue ==
    \A v \in Callable, cb \in Callbacks :
        LET u == Update(Sys, v, cb)
            lg == u.st.log
        IN  u.res.k = "Some" =>
                /\ Cardinality(UpdatesAt(lg, v.id)) = 1
                /\ \A p \in UpdatesAt(lg, v.id) :
                       /\ lg[p].val = ApplyCallback(cb, values[v.id].v)
                       /\ Cardinality({i \in ReadsAt(lg, v.id) : i < p})
                              = ReadersIn(listeners[<<Updating, v.id>>], v)
                       /\ \A i \in ReadsAt(lg, v.id) :
                              lg[i].val = IF i < p THEN values[v.id].v ELSE lg[p].val
                       /\ ~Outer(lg).res.aborted =>
                              Cardinality({i \in ReadsAt(lg, v.id) : i > p})
                                  >= ReadersIn(listeners[<<Updated, v.id>>], v)
                       /\ Emits(lg, Updating, v.id) # {} /\ Emits(lg, Updated, v.id) # {}
                       /\ \A i \in Emits(lg, Updating, v.id) : i < p
                       /\ \A i \in Emits(lg, Updated, v.id) : i > p

\* a variable that is 0 has a handler of Updating and a handler of Updated
\* that read it; it is updated to 1: the first reads 0, the second 1
C19_Witness ==
    /\ ~panicked
    /\ \E v \in Callable :
           /\ values[v.id].v = 0
           /\ ReadersIn(listeners[<<Updating, v.id>>], v) = 1
           /\ ReadersIn(listeners[<<Updated, v.id>>], v) = 1
           /\ Update(Sys, v, "set").res = RetSome(1)
           /\ \E i, j \in ReadsAt(Update(Sys, v, "set").st.log, v.id) :
                  /\ i < j
                  /\ Update(Sys, v, "set").st.log[i].val = 0
                  /\ Update(Sys, v, "set").st.log[j].val = 1

\* ----------------------------------------------------------------- C20
\* the recipe |_, _| 0 (false for a bool)
Const == [reads |-> <<>>, base |-> 0]
\* a call through the stale handle is a soft miss that leaves the state st
StaleMiss(r, st) == r.res = RetNone /\ StripLog(r.st) = StripLog(st)

\* C20: a variable is deleted and its ID is given to a new variable of
\* another type: read, update and delete through the handle of the deleted
\* variable return Ok(None), do not panic, and leave the new variable and the
\* rest of the state as they are.
C20_StaleHandleOfOtherType ==
    \A v \in Callable : \A ty \in host.types \ {v.ty} :
        LET d == Delete(Sys, v)
            c == Create(StripLog(d.st), ty, Const)
        IN  (d.res.k = "Some" /\ c.res = RetSome(v.id)) =>
                /\ c.st.values[v.id].ty = ty
                /\ StaleMiss(Read(c.st, v), c.st)
                /\ \A cb \in Callbacks : StaleMiss(Update(c.st, v, cb), c.st)
                /\ StaleMiss(Delete(c.st, v), c.st)

\* ----------------------------------------------------------------- C21
\* no user code run by the call that left the trace lg was entered with an ID
\* in only one of the value store and the recipe table
Coherent(lg) == \A i \in DOMAIN lg : lg[i].k # "incoherent"

\* C21: an ID is a key of the value store if and only if it is a key of the
\* recipe table, in every state between two calls and in every state in
\* which a handler, a recipe or a callback is entered during a call, the
\* recomputation of a dependent included.
C21_ValueRecipeCoherence ==
    ~panicked =>
        /\ DOMAIN values = DOMAIN recipes
        /\ \A v \in Handles :
               /\ Coherent(Read(Sys, v).st.log)
               /\ Coherent(Delete(Sys, v).st.log)
               /\ \A cb \in Callbacks : Coherent(Update(Sys, v, cb).st.log)
        /\ CanAlloc =>
               \A ty \in host.types, recipe \in RecipeSet :
                   Coherent(Create(Sys, ty, recipe).st.log)

\* the part of it that is about the states between two calls
CoherentBetweenCalls == ~panicked => DOMAIN values = DOMAIN recipes

\* ----------------------------------------------------------------- C22
\* the variables of the kernel state st, by each of its two tables
Stored(st) == DOMAIN st.values
Cooked(st) == DOMAIN st.recipes

\* C22: the live IDs, the keys of the value store and the keys of the recipe
\* table are one set.  It is empty at first; a create that is not cancelled
\* returns an ID that was in neither table and adds it to both; a delete
\* that is not cancelled takes its ID out of both; and both tables have the
\* same keys between any two calls.
C22_LiveIdsAreStoredAndCooked ==
    ~panicked =>
        /\ Stored(SysDefault) = {} /\ Cooked(SysDefault) = {}
        /\ Stored(Sys) = Cooked(Sys)
        /\ CanAlloc =>
               \A ty \in host.types, recipe \in RecipeSet :
                   LET c == Create(Sys, ty, recipe)
                   IN  c.res.k = "Some" =>
                           /\ c.res.v \notin Stored(Sys)
                           /\ Stored(c.st) = Stored(Sys) \cup {c.res.v}
                           /\ Cooked(c.st) = Stored(c.st)
        /\ \A v \in Callable :
               LET d == Delete(Sys, v)
               IN  d.res.k = "Some" =>
                       /\ Stored(d.st) = Stored(Sys) \ {v.id}
                       /\ Cooked(d.st) = Stored(d.st)

\* a variable is deleted while another is live, and the next create puts its
\* ID back into both tables
C22_Witness ==
    /\ ~panicked
    /\ \E v \in Callable :
           /\ Cardinality(Stored(Sys)) = 2
           /\ Delete(Sys, v).res.k = "Some"
           /\ Stored(Delete(Sys, v).st) = Stored(Sys) \ {v.id}
           /\ Create(StripLog(Delete(Sys, v).st), v.ty, Const).res = RetSome(v.id)
           /\ Cooked(Create(StripLog(Delete(Sys, v).st), v.ty, Const).st) = Stored(Sys)

\* ----------------------------------------------------------------- C23
\* the number of handlers of the bucket that make the call k on the variable x
RECURSIVE ActorsIn(_, _, _)
ActorsIn(bucket, k, x) ==
    IF bucket = <<>>
    THEN 0
    ELSE (IF ActOf(Head(bucket).h) = [k |-> k, var |-> x] THEN 1 ELSE 0)
             + ActorsIn(Tail(bucket), k, x)

\* C23: Created is emitted when the new variable is in place: in a create
\* that returns the variable n, every handler of Created that reads n has
\* its callback run on n's value, every one that updates n has its callback
\* run, and every one that listens on n registers a listener.  Deleted is
\* emitted when the variable is gone: in a delete of v that returns
\* Ok(Some), the handlers of Deleted are all invoked, none of them that
\* reads, updates or listens on v gets past the soft miss, no recipe is run
\* by their updates of other variables for v, and v is left without value,
\* recipe, edges and listeners.
C23_CreatedAfterStoreDeletedAfterWipe ==
    ~panicked =>
        /\ CanAlloc =>
               \A ty \in host.types, recipe \in RecipeSet :
                   LET c == Create(Sys, ty, recipe)
                       n == [id |-> c.res.v, ty |-> ty]
                       b == listeners[<<Created(ty), NoId>>]
                   IN  c.res.k = "Some" =>
                           /\ ~c.st.panicked
                           /\ Outer(c.st.log).fired = Ids(b)
                           /\ Cardinality(ReadsAt(c.st.log, n.id)) = ActorsIn(b, "read", n)
                           /\ Cardinality(UpdatesAt(c.st.log, n.id)) = ActorsIn(b, "update", n)
                           /\ Len(c.st.listeners[<<Updated, n.id>>]) = ActorsIn(b, "watch", n)
                           /\ \A p \in UpdatesAt(c.st.log, n.id) :
                                  c.st.log[p].val = ApplyCallback("set", 0)
        /\ \A v \in Callable :
               LET d == Delete(Sys, v)
                   b == listeners[<<Deleted(v.ty), NoId>>]
               IN  d.res.k = "Some" =>
                       /\ ~d.st.panicked
                       /\ Outer(d.st.log).ety = Deleted(v.ty)
                       /\ Outer(d.st.log).fired = Ids(b)
                       /\ ReadsAt(d.st.log, v.id) = {}
                       /\ UpdatesAt(d.st.log, v.id) = {}
                       /\ RecipeRuns(d.st.log, v.id) = {}
                       /\ d.st.listeners[<<Updated, v.id>>] = <<>>
                       /\ v.id \notin DOMAIN d.st.values /\ v.id \notin DOMAIN d.st.recipes
                       /\ \A x \in IdSet : v.id \notin d.st.dependencies[x]
                       /\ d.st.dependencies[v.id] = {}

\* a variable with a handler of Deleted and a handler of Created that read
\* it is deleted, and the next create is given its ID: the first handler's
\* read is a soft miss, the second runs its callback
C23_Witness ==
    /\ ~panicked
    /\ \E x \in Callable :
           /\ ActorsIn(listeners[<<Deleted(x.ty), NoId>>], "read", x) = 1
           /\ ActorsIn(listeners[<<Created(x.ty), NoId>>], "read", x) = 1
           /\ Delete(Sys, x).res.k = "Some"
           /\ ReadsAt(Delete(Sys, x).st.log, x.id) = {}
           /\ Create(StripLog(Delete(Sys, x).st), x.ty, Const).res = RetSome(x.id)
           /\ Cardinality(ReadsAt(Create(StripLog(Delete(Sys, x).st), x.ty, Const).st.log,
                                  x.id)) = 1

\* ----------------------------------------------------------------- C24
\* the thread has obtained an ID in the create or listen it is in
Obtained(t) == threads[t].pc \in {"incr", "store"}
\* no thread is in a call
Quiet == \A t \in 1 .. Threads : threads[t].pc = "idle"

\* C24: the calls of the threads are serialized.  Two calls of create or
\* listen that overlap never obtain the same ID; once every call has returned
\* no listener is registered on an ID that is not a variable, whatever listen
\* and delete raced; and no call fails an unwrap, as none does when the calls
\* run one after another.
C24_ThreadsSerialized ==
    /\ \A t, u \in 1 .. Threads :
           (t # u /\ Obtained(t) /\ Obtained(u)) => threads[t].id # threads[u].id
    /\ Quiet =>
           \A bk \in Buckets : (bk[2] # NoId /\ listeners[bk] # <<>>) => bk[2] \in DOMAIN values
    /\ ~panicked

\* ----------------------------------------------------------------- C25
\* C25: if the handlers of Updating on v veto update(v, cb) (one aborts, or
\* more vote Cancel than Proceed), the call returns Err(()), cb is not called,
\* no recipe runs, nothing but Updating on v is emitted (no Updating or
\* Updated on a dependent, no Updated on v), and the state of the system,
\* the values of v and of its dependents included, is as it was.
C25_VetoedUpdateChangesNothing ==
    \A v \in Callable, cb \in Callbacks :
        LET u == Update(Sys, v, cb)
        IN  Vetoed(listeners[<<Updating, v.id>>]) =>
                /\ u.res = RetErr
                /\ StripLog(u.st) = StripLog(Sys)
                /\ Len(u.st.log) = 1
                /\ Emits(u.st.log, Updating, v.id) = {1}

\* a variable with a dependent and a handler of Updating that aborts or votes
\* Cancel; the update is refused although an update without the handler
\* would change both values
C25_Witness ==
    \E v \in Callable :
        /\ dependencies[v.id] # {}
        /\ Vetoed(listeners[<<Updating, v.id>>])
        /\ Update(Sys, v, "set").res = RetErr
        /\ UpdateValue(Sys, v, "set").st.values # values

\* ----------------------------------------------------------------- C26
\* the variables of st whose recipe reads the ID id
ReadersOf(st, id) ==
    {b \in DOMAIN st.recipes :
        \E i \in DOMAIN st.recipes[b].reads : st.recipes[b].reads[i].id = id}
\* no recipe of st reads an ID that is not a variable
NoDangling(st) == \A id \in IdSet : ReadersOf(st, id) # {} => id \in DOMAIN st.values

\* C26: no dangling reference is reachable: from a state without one, a delete
\* that removes a variable leaves no variable whose recipe reads it, whatever
\* the handlers of Deleting did.
C26_DeleteLeavesNoReader ==
    NoDangling(Sys) =>
        \A v \in Callable :
            Delete(Sys, v).res.k = "Some" => ReadersOf(Delete(Sys, v).st, v.id) = {}

\* ----------------------------------------------------------------- C27
\* C27: no unwrap on the value store fails in read, update or delete of a
\* live variable, whatever the handlers of Reading, Updating and Deleting do.
C27_TargetPresentAfterDispatch ==
    \A v \in Callable :
        /\ ~Read(Sys, v).st.panicked
        /\ ~Update(Sys, v, "set").st.panicked
        /\ ~Delete(Sys, v).st.panicked

\* ----------------------------------------------------------------- C28
\* the places of lg where the recipe of the variable id returned
RecipesAt(lg, id) == {i \in DOMAIN lg : lg[i].k = "recipe" /\ lg[i].tgt = id}

\* C28: in update(v, cb) that the handlers of Updating on v let through, a
\* dependent d whose handlers of Updating veto is skipped and nothing else
\* is: the recipe of d does not run, the value of d stays and no Updated is
\* emitted on d; the recipe of every other dependent runs once, after the
\* callback and with the value the callback left, its result is stored and
\* Updated is emitted on it; Updated on v is the last event emitted; the call
\* returns Ok(Some(result of cb)).
C28_OnlyVetoedDependentSkipped ==
    \A v \in Callable, cb \in Callbacks :
        LET u == Update(Sys, v, cb)
            lg == u.st.log
        IN  ~Vetoed(listeners[<<Updating, v.id>>]) =>
                /\ u.res = RetSome(ApplyCallback(cb, values[v.id].v))
                /\ Emits(lg, Updated, v.id) = {Len(lg)}
                /\ \A d \in dependencies[v.id] :
                       /\ Emits(lg, Updating, d) # {}
                       /\ IF Vetoed(listeners[<<Updating, d>>])
                          THEN /\ RecipesAt(lg, d) = {}
                               /\ Emits(lg, Updated, d) = {}
                               /\ u.st.values[d] = values[d]
                          ELSE /\ Cardinality(RecipesAt(lg, d)) = 1
                               /\ \A p \in RecipesAt(lg, d) :
                                      /\ \A i \in UpdatesAt(lg, v.id) : i < p
                                      /\ \E i \in Emits(lg, Updated, d) : i > p
                                      /\ u.st.values[d].v = lg[p].val
                                      /\ lg[p].val = recipes[d].base + ApplyCallback(cb, values[v.id].v)

\* a variable with two dependents; the handler of Updating on the first one
\* vetoes, the second one has no handler: an update of the variable returns
\* Ok(Some), leaves the first dependent as it was and recomputes the second
C28_Witness ==
    \E v \in Callable : \E d, e \in dependencies[v.id] :
        /\ d < e
        /\ values[v.id].v = 0 /\ values[d].v = 1 /\ values[e].v = 1
        /\ Vetoed(listeners[<<Updating, d>>])
        /\ listeners[<<Updating, e>>] = <<>> /\ listeners[<<Updating, v.id>>] = <<>>
        /\ Update(Sys, v, "set").res.k = "Some"
        /\ Update(Sys, v, "set").st.values[d].v = 1
        /\ Update(Sys, v, "set").st.values[e].v = 2

\* ----------------------------------------------------------------- C29
\* C29: dependencies are fixed at creation.  tracking_id is unset between
\* calls and when create returns, with Ok or with Err; read and update, the
\* reads made by the recipes that update recomputes included, leave
\* tracking_id unset and add no edge to and remove no edge from the
\* dependency graph.
C29_DependenciesFixedAtCreation ==
    ~panicked =>
        /\ tracking_id = NoId
        /\ \A ty \in host.types, recipe \in RecipeSet :
               Create(Sys, ty, recipe).res.k \in {"Some", "Err"} =>
                   Create(Sys, ty, recipe).st.tracking_id = NoId
        /\ \A v \in Callable :
               /\ Read(Sys, v).st.dependencies = dependencies
               /\ Read(Sys, v).st.tracking_id = NoId
               /\ \A cb \in Callbacks :
                      /\ Update(Sys, v, cb).st.dependencies = dependencies
                      /\ Update(Sys, v, cb).st.tracking_id = NoId

\* a variable v with a dependent d and a third variable w that d did not
\* read when it was created: update(v) re-runs the recipe of d, which reads
\* v, and the dependents of v and of w are as before
C29_Witness ==
    \E v, w \in Callable : \E d \in dependencies[v.id] :
        /\ v # w /\ d # w.id /\ dependencies[w.id] = {}
        /\ Update(Sys, v, "set").res.k = "Some"
        /\ RecipesAt(Update(Sys, v, "set").st.log, d) # {}
        /\ ReadsAt(Update(Sys, v, "set").st.log, v.id) # {}
        /\ Update(Sys, v, "set").st.dependencies = dependencies

\* ----------------------------------------------------------------- C30
\* C30: the cascade of an update finds a recipe for every dependent of its
\* snapshot it recomputes: no update of a live variable that has dependents
\* fails expect("all variables have a recipe").  (A variable with dependents
\* cannot be deleted, so the unwrap on its value cannot fail.)
C30_CascadeFindsRecipe ==
    \A v \in Callable, cb \in Callbacks :
        dependencies[v.id] # {} => ~Update(Sys, v, cb).st.panicked

\* ----------------------------------------------------------------- C31
\* C31: a create that returns Err(()) leaves the dependency graph as it was
\* before the call, so between calls every dependent recorded in the graph
\* is a live variable.
C31_CancelledCreateLeavesGraph ==
    ~panicked =>
        /\ \A id \in IdSet : dependencies[id] \subseteq DOMAIN values
        /\ CanAlloc =>
               \A ty \in host.types, recipe \in RecipeSet :
                   Create(Sys, ty, recipe).res = RetErr =>
                       Create(Sys, ty, recipe).st.dependencies = dependencies

\* ----------------------------------------------------------------- C32
\* the places <<bucket, index>> of the registered listeners of st
ListenerPlaces(st) ==
    {p \in Buckets \X (1 .. WideIds) : p[2] <= Len(st.listeners[p[1]])}
\* the IDs of the registered listeners of st
ListenerIds(st) == {st.listeners[p[1]][p[2]].id : p \in ListenerPlaces(st)}
\* the IDs of the free pool of st
Pooled(st) == {st.id_pool[i] : i \in DOMAIN st.id_pool}
\* the ID an allocation hands out in the current state
NextFree == IF id_pool # <<>> THEN id_pool[Len(id_pool)] ELSE next_id
\* the free pool and the counter once NextFree is handed out
Taken(st) ==
    /\ st.id_pool = IF id_pool # <<>> THEN SubSeq(id_pool, 1, Len(id_pool) - 1) ELSE <<>>
    /\ st.next_id = IF id_pool # <<>> THEN next_id ELSE next_id + 1

\* C32: identifiers are unique.  No ID is twice in the free pool; no ID of
\* the pool is a live variable or a registered listener; no two registered
\* listeners, and no listener and variable, share an ID; every ID issued is
\* below next_id.  create and listen hand out the most recently freed ID if
\* there is one, else next_id, which they increment (and that is all that
\* happens to the pool and the counter unless a handler of the call makes an
\* allocation of its own).  silence leaves the pool and the counter alone.
C32_IdsUnique ==
    ~panicked =>
        /\ \A i, j \in DOMAIN id_pool : i # j => id_pool[i] # id_pool[j]
        /\ Pooled(Sys) \cap (DOMAIN values \cup ListenerIds(Sys)) = {}
        /\ DOMAIN values \cap ListenerIds(Sys) = {}
        /\ \A p, q \in ListenerPlaces(Sys) :
               p # q => listeners[p[1]][p[2]].id # listeners[q[1]][q[2]].id
        /\ \A id \in Pooled(Sys) \cup DOMAIN values \cup ListenerIds(Sys) :
               0 <= id /\ id < next_id
        /\ CanAlloc =>
               /\ \A ty \in host.types, recipe \in RecipeSet :
                      LET c == Create(Sys, ty, recipe)
                      IN  /\ c.res.k = "Some" =>
                                 /\ c.res.v = NextFree
                                 /\ NextFree \notin Pooled(c.st) /\ NextFree < c.st.next_id
                                 /\ host.acts = {} => Taken(c.st)
                          /\ c.res.k = "Err" =>
                                 /\ c.st.id_pool # <<>>
                                 /\ c.st.id_pool[Len(c.st.id_pool)] = NextFree
               /\ \A h \in host.handlers, ety \in host.events, tgt \in TargetSet :
                      (Scoped(tgt, ety) /\ tgt \in DOMAIN values \cup {NoId}) =>
                          /\ Listen(Sys, tgt, ety, h).res = RetSome(NextFree)
                          /\ Taken(Listen(Sys, tgt, ety, h).st)
        /\ \A l \in Registered :
               /\ Silence(Sys, l).res.k = "Some"
               /\ Silence(Sys, l).st.id_pool = id_pool
               /\ Silence(Sys, l).st.next_id = next_id
               /\ l.id \notin ListenerIds(Silence(Sys, l).st)

\* two variables were deleted one after the other while a listener is
\* registered: the next create is given the ID freed last, and silencing the
\* listener frees nothing
C32_Witness ==
    /\ ~panicked
    /\ Len(id_pool) = 2
    /\ \E l \in Registered :
           /\ Silence(Sys, l).res.k = "Some"
           /\ Silence(Sys, l).st.id_pool = id_pool
    /\ Create(Sys, "i32", Const).res = RetSome(id_pool[2])
    /\ Create(Sys, "i32", Const).st.id_pool = <<id_pool[1]>>

\* ----------------------------------------------------------------- C33
\* the IDs that can be reached from the IDs of frontier along the edges of
\* deps, added to seen
RECURSIVE Descendants(_, _, _)
Descendants(deps, frontier, seen) ==
    IF frontier \subseteq seen
    THEN seen
    ELSE Descendants(deps, UNION {deps[x] : x \in frontier} , seen \cup frontier)
\* the IDs that (transitively) depend on id
DependOn(deps, id) == Descendants(deps, deps[id], {})
Acyclic(deps) == \A id \in IdSet : id \notin DependOn(deps, id)

\* C33: the dependency graph is acyclic: no ID (transitively) depends on
\* itself.  A create, cancelled or not, records edges only from variables
\* that are live to the ID it allocated, which is not live during the call
\* of the recipe; read, update and delete record none.
C33_Acyclic ==
    ~panicked =>
        /\ Acyclic(dependencies)
        /\ \A id \in IdSet \ DOMAIN values : dependencies[id] = {}
        /\ CanAlloc =>
               \A ty \in host.types, recipe \in RecipeSet : \A x \in IdSet :
                   /\ Create(Sys, ty, recipe).st.dependencies[x] \ dependencies[x]
                          \subseteq {NextFree}
                   /\ Create(Sys, ty, recipe).st.dependencies[x] # dependencies[x] =>
                          x \in DOMAIN values /\ x # NextFree
        /\ \A v \in Callable : \A x \in IdSet :
               /\ Read(Sys, v).st.dependencies[x] \subseteq dependencies[x]
               /\ Update(Sys, v, "set").st.dependencies[x] \subseteq dependencies[x]
               /\ Delete(Sys, v).st.dependencies[x] \subseteq dependencies[x]

\* a chain a -> b -> x of three IDs in which x was released by a cancelled
\* create whose recipe read b, and a create whose recipe reads b that is
\* cancelled as well and given the ID x again
C33_Witness ==
    \E a, b \in DOMAIN values : \E x \in IdSet \ DOMAIN values :
        /\ b \in dependencies[a] /\ x \in dependencies[b]
        /\ x \in DependOn(dependencies, a)
        /\ id_pool # <<>> /\ NextFree = x
        /\ Create(Sys, "i32", [reads |-> <<[id |-> b, ty |-> "i32"]>>, base |-> 1]).res = RetErr

\* ----------------------------------------------------------------- C34
\* a call is in progress
Running == Call.pc = "run"
\* the call in progress, if it is an update past its snapshot, has run the
\* recipe of no ID twice and of no ID outside its snapshot
OncePerSnapshot ==
    /\ \A i, j \in DOMAIN Call.ran : i # j => Call.ran[i] # Call.ran[j]
    /\ \A i \in DOMAIN Call.ran : Call.ran[i] \in Call.snap

\* C34: every call runs to completion: a call in progress returns after
\* finitely many steps, and an update runs the recipe of each dependent of
\* its snapshot at most once and of nothing else.
C34_CallsReturn == []OncePerSnapshot /\ (Running ~> ~Running)

\* every call ends after finitely many steps: it returns or a failed expect
\* stops it
CallsEnd == []OncePerSnapshot /\ (Running ~> (~Running \/ panicked))

====
